---- MODULE Spec2Model ----
(***************************************************************************)
(* A model of the typed validation / marshalling engine of the StorPool    *)
(* Python bindings: spcatch (partial-failure carrier), sptype / sptypes    *)
(* (type descriptors), spjson (record objects and the JSON encoder) and    *)
(* spapi (the API method compiler).                                        *)
(*                                                                         *)
(* Python values are tagged records, one field name per tag, so that any   *)
(* two of them can be compared:                                            *)
(*   None  [t |-> "none"]            int  [t |-> "int",  i |-> 3]          *)
(*   str   [t |-> "str", s |-> "x"]  list [t |-> "list", l |-> <<..>>]     *)
(*   set   [t |-> "set", e |-> {..}]                                       *)
(*   dict  [t |-> "dict", kv |-> <<[k |-> key, v |-> value], ..>>]         *)
(*         (insertion ordered, keys unique)                                *)
(*   record instance [t |-> "obj", cls |-> "Name", id |-> n, a |-> attrs]  *)
(* The outcome of a call is Ret(value) or Raise(exception).                *)
(***************************************************************************)
EXTENDS Integers, Sequences, FiniteSets, TLC

VARIABLES
    \* A sequence of sp_catch calls ended by sp_caught: the error remembered,
    \* the values handle was given, the calls made, the outcome of sp_caught.
    exc, result, steps, caught,
    \* One use of a type descriptor: the descriptor, the raw value, the outcome.
    tp, raw, res,
    \* A record instance: the instance, the constructor call that made it,
    \* and the last operation on it.
    obj, made, op,
    \* One invocation of a compiled API method: its frame, and the calls the
    \* transport has received.
    call, calls,
    \* The declaration of an API method or of a type.
    decl,
    \* One request of Api.__call__: the frame of its retry loop.
    req,
    \* The frames of the threads that validate at the same time.
    threads

vars ==
    <<exc, result, steps, caught, tp, raw, res, obj, made, op, call, calls,
      decl, req, threads>>

catchVars == <<exc, result, steps, caught>>
typeVars == <<tp, raw, res>>
recVars == <<obj, made, op>>
apiVars == <<call, calls>>
declVars == <<decl>>
reqVars == <<req>>
threadVars == <<threads>>

\* The value of a variable group that the running specification does not use.
Idle == [idle |-> TRUE]

-----------------------------------------------------------------------------
(* Bounds of the model. *)

\* How many sp_catch calls are threaded in one sequence.
MaxSteps == 3
\* The longest raw list handed to a list validator.
MaxLen == 3

\* The integers the model's raw values and decimal strings range over.
IntDom == -1 .. 6

-----------------------------------------------------------------------------
(* Python values. *)

PyNone == [t |-> "none"]
PyBool(b) == [t |-> "bool", b |-> b]
PyInt(i) == [t |-> "int", i |-> i]
PyStr(s) == [t |-> "str", s |-> s]
PyList(l) == [t |-> "list", l |-> l]
PySet(e) == [t |-> "set", e |-> e]
PyDict(kv) == [t |-> "dict", kv |-> kv]

Ret(v) == [ok |-> TRUE, val |-> v]
Raise(e) == [ok |-> FALSE, err |-> e]

\* An exception object. id tells exception objects apart (object identity);
\* the validators, whose exceptions are never compared by identity, use 0.
Exception(kind, message) ==
    [kind |-> kind, message |-> message, partial |-> PyNone, id |-> 0]

IAE == "InvalidArgumentError"

\* "exc is None": no error remembered.
NoExc == [none |-> TRUE]

-----------------------------------------------------------------------------
(* spcatch *)

\* InvalidArgumentError(fmt, partial, **kwargs), with message the already
\* formatted text.
InvalidArgumentError(message, partial) ==
    [kind |-> IAE, message |-> message, partial |-> partial, id |-> 0]

\* error(fmt, partial, **kwargs)
error(message, partial) == Raise(InvalidArgumentError(message, partial))

\* A mutant of sp_catch: a later failure always replaces the remembered one
\* and the partial of a failure is dropped.
sp_catch_stop(acc, out, e) ==
    IF out.ok THEN [acc |-> Append(acc, out.val), exc |-> e]
    ELSE [acc |-> acc, exc |-> out.err]

\* A mutant of sp_catch: plain first-error-wins, whatever the kinds.
sp_catch_first(acc, out, e) ==
    IF out.ok THEN [acc |-> Append(acc, out.val), exc |-> e]
    ELSE [acc |-> IF out.err.kind = IAE /\ out.err.partial # PyNone
                  THEN Append(acc, out.err.partial) ELSE acc,
          exc |-> IF e = NoExc THEN out.err ELSE e]

\* sp_catch(handle, func, exc). out is the outcome of func(); handle is the
\* append (or add) of the call sites, acc the values it has been given so
\* far. Returns the values handled and the error to remember.
sp_catch(acc, out, e) ==
    IF out.ok
    THEN [acc |-> Append(acc, out.val), exc |-> e]
    ELSE IF out.err.kind = IAE
    THEN [acc |-> IF out.err.partial # PyNone
                  THEN Append(acc, out.err.partial) ELSE acc,
          exc |-> IF e = NoExc \/ e.kind # IAE THEN out.err ELSE e]
    ELSE [acc |-> acc, exc |-> IF e = NoExc THEN out.err ELSE e]

\* A mutant of sp_caught: the error is re-raised as it was remembered.
sp_caught_asis(e, name, partial) ==
    IF e = NoExc THEN Ret(PyNone) ELSE Raise(e)

\* sp_caught(exc, name, partial): Ret(None) when it returns, else the raise.
sp_caught(e, name, partial) ==
    IF e = NoExc THEN Ret(PyNone)
    ELSE IF e.kind = IAE
    THEN Raise([e EXCEPT !.message = name \o ": " \o e.message,
                         !.partial = partial])
    ELSE Raise(InvalidArgumentError(name \o ": " \o e.message, partial))

-----------------------------------------------------------------------------
(* Python built-ins the validators rest on. *)

\* The strings of the model, with their characters (iterating a str).
Chars(s) ==
    CASE s = "x" -> <<"x">>
      [] s = "2" -> <<"2">>
      [] s = "hdd" -> <<"h", "d", "d">>
      [] s = "B" -> <<"B">>
      [] s = "hd" -> <<"h", "d">>
      [] s = "h#d" -> <<"h", "#", "d">>
      [] s = "disk" -> <<"d", "i", "s", "k">>
      [] s = "list" -> <<"l", "i", "s", "t">>
      [] s = "disks" -> <<"d", "i", "s", "k", "s">>
      [] s = "-" -> <<"-">>
      [] s = "-1" -> <<"-", "1">>
      [] s \in {"0", "1", "3", "4", "5", "6", "7"} -> <<s>>
      [] s = "" -> <<>>
      [] OTHER -> <<>>

\* s is the decimal text of an integer of the model.
IsDecimal(s) == \E i \in IntDom : ToString(i) = s
DecimalOf(s) == CHOOSE i \in IntDom : ToString(i) = s

\* type(v).__name__
TypeName(v) ==
    IF v.t = "none" THEN "NoneType" ELSE IF v.t = "obj" THEN v.cls ELSE v.t

Hashable(v) == v.t \in {"none", "int", "str"}

RECURSIVE JoinRepr(_)
\* repr() of a str, and str() of the other scalars.
py_repr(v) ==
    CASE v.t = "none" -> "None"
      [] v.t = "int" -> ToString(v.i)
      [] v.t = "str" -> "'" \o v.s \o "'"
      [] v.t = "list" -> "[" \o JoinRepr(v.l) \o "]"
      [] OTHER -> "<" \o v.t \o ">"

JoinRepr(l) ==
    IF l = <<>> THEN ""
    ELSE IF Len(l) = 1 THEN py_repr(l[1])
    ELSE py_repr(l[1]) \o ", " \o JoinRepr(Tail(l))

\* str(v): never fails.
py_str(v) == IF v.t = "str" THEN v.s ELSE py_repr(v)

\* A faulty int(): only an integer is accepted, a decimal string is not parsed.
py_int_strict(v) ==
    IF v.t = "int" THEN Ret(v)
    ELSE Raise(Exception("TypeError",
            "int() argument must be a number, not '" \o TypeName(v) \o "'"))

\* int(v): ValueError for a str that is no number, TypeError for a value
\* that is neither a number nor a str.
py_int(v) ==
    CASE v.t = "int" -> Ret(v)
      [] v.t = "str" ->
            IF IsDecimal(v.s) THEN Ret(PyInt(DecimalOf(v.s)))
            ELSE Raise(Exception("ValueError",
                    "invalid literal for int() with base 10: " \o py_repr(v)))
      [] OTHER ->
            Raise(Exception("TypeError",
                    "int() argument must be a string or a number, not '"
                    \o TypeName(v) \o "'"))

\* iter(v): the elements in iteration order, or TypeError.
py_iter(v) ==
    CASE v.t = "list" -> Ret(v.l)
      [] v.t = "str" -> Ret([n \in 1 .. Len(Chars(v.s)) |-> PyStr(Chars(v.s)[n])])
      [] v.t = "dict" -> Ret([n \in 1 .. Len(v.kv) |-> v.kv[n].k])
      [] OTHER ->
            Raise(Exception("TypeError",
                    "'" \o TypeName(v) \o "' object is not iterable"))

\* d[key], for a key that d holds.
DictHas(kv, key) == \E n \in 1 .. Len(kv) : kv[n].k = key
DictGet(kv, key) == kv[CHOOSE n \in 1 .. Len(kv) : kv[n].k = key].v
\* d[key] = value: an existing key keeps its place.
DictPut(kv, key, value) ==
    IF DictHas(kv, key)
    THEN [n \in 1 .. Len(kv) |->
            IF kv[n].k = key THEN [k |-> key, v |-> value] ELSE kv[n]]
    ELSE Append(kv, [k |-> key, v |-> value])

\* The elements of a sequence, as a set.
Range(q) == {q[n] : n \in 1 .. Len(q)}

-----------------------------------------------------------------------------
(* sptype / sptypes: type descriptors.  An SpType is a record: k tells the *)
(* combinator that built it, name is its name, the rest its parameters;    *)
(* handleVal and defaultVal dispatch on k.                                 *)

\* spType(int), spType(str): the class is the validator, there is no default.
spTypeInt == [k |-> "int", name |-> "int"]
spTypeStr == [k |-> "str", name |-> "str"]

spList(sub) == [k |-> "list", name |-> "[" \o sub.name \o "]", sub |-> sub]
spSet(sub) == [k |-> "set", name |-> "{" \o sub.name \o "}", sub |-> sub]
spDict(keySt, valSt) ==
    [k |-> "dict", name |-> "{" \o keySt.name \o ": " \o valSt.name \o "}",
     key |-> keySt, val |-> valSt]
maybe(sub) == [k |-> "maybe", name |-> "Optional(" \o sub.name \o ")", sub |-> sub]
internal(sub) ==
    [k |-> "internal", name |-> "Internal(" \o sub.name \o ")", sub |-> sub]
\* const(constVal): the name is the JSON text of the value.
const(constVal) ==
    [k |-> "const",
     name |-> IF constVal.t = "str" THEN "\"" \o constVal.s \o "\""
              ELSE IF constVal.t = "none" THEN "null" ELSE py_repr(constVal),
     c |-> constVal]
\* ", ".join(t.name for t in types)
RECURSIVE tpNames(_)
tpNames(types) ==
    IF types = <<>> THEN ""
    ELSE IF Len(types) = 1 THEN types[1].name
    ELSE types[1].name \o ", " \o tpNames(Tail(types))

\* either(*types)
either(types) ==
    [k |-> "either", name |-> "Either(" \o tpNames(types) \o ")", types |-> types]

\* eitherOr(tp, default): sub is its tp
eitherOr(sub, default) == either(<<const(default), sub>>)

intRange(argName, min, max) ==
    [k |-> "intRange", name |-> argName, min |-> min, max |-> max]
namedEnum(argName, names, first) ==
    [k |-> "namedEnum", name |-> argName, names |-> names, first |-> first]

\* regex(argName, regex): the pattern is ^[class]+$ or ^[class]*$, held as
\* the class of characters and the least length.
regex(argName, pattern) == [k |-> "regex", name |-> argName, re |-> pattern]

\* oneOf(argName, *accepted)
oneOf(argName, accepted) == [k |-> "oneOf", name |-> argName, accepted |-> accepted]

\* unlimitedInt(argName, min, unlimited)
unlimitedInt(argName, min, unlimited) ==
    [k |-> "unlimitedInt", name |-> argName, min |-> min, unlimited |-> unlimited]

\* nameValidator(argName, regex, size, *blacklisted)
nameValidator(argName, pattern, size, blacklisted) ==
    [k |-> "nameValidator", name |-> argName, re |-> pattern, size |-> size,
     blacklisted |-> blacklisted]

\* volumeSizeValidator(argName)
volumeSizeValidator(argName) == [k |-> "volumeSize", name |-> argName]

SECTOR_SIZE == 512

\* _regex.match(string)
re_match(pattern, string) ==
    /\ Len(Chars(string)) >= pattern.least
    /\ \A n \in 1 .. Len(Chars(string)) : Chars(string)[n] \in pattern.class

\* regex(argName, regex).validator
regexValidator(T, v) ==
    IF v = PyNone THEN error("No " \o T.name \o " specified", PyNone)
    ELSE IF ~re_match(T.re, py_str(v))
    THEN error("Invalid " \o T.name \o " \"" \o py_str(v) \o "\". Must match the regex",
               PyNone)
    ELSE Ret(PyStr(py_str(v)))

\* oneOf(argName, *accepted).validator: "value not in _accepted" hashes the
\* value.
oneOfValidator(T, v) ==
    IF ~Hashable(v)
    THEN Raise(Exception("TypeError", "unhashable type: '" \o TypeName(v) \o "'"))
    ELSE IF v \notin T.accepted
    THEN error("Invalid " \o T.name \o ": " \o py_str(v), PyNone)
    ELSE Ret(v)

\* unlimitedInt(argName, min, unlimited).validator
unlimitedIntValidator(T, v) ==
    IF v = PyNone THEN error("No " \o T.name \o " specified", PyNone)
    ELSE IF v = T.unlimited THEN Ret(v)
    ELSE IF ~py_int(v).ok
    THEN IF py_int(v).err.kind = "ValueError"
         THEN error("Non-numeric " \o T.name \o ": " \o py_str(v), PyNone)
         ELSE py_int(v)
    ELSE IF py_int(v).val.i < T.min
    THEN error("Ivalid " \o T.name \o ". Must be at least " \o ToString(T.min), PyNone)
    ELSE py_int(v)

\* A faulty nameValidator: a name of size characters is accepted.
nameValidatorValidator_upto(T, v) ==
    IF v = PyNone THEN error("No " \o T.name \o " specified", PyNone)
    ELSE IF ~re_match(T.re, py_str(v))
    THEN error("Invalid " \o T.name \o " \"" \o py_str(v) \o "\". Must match the regex",
               PyNone)
    ELSE IF py_str(v) \in T.blacklisted
    THEN error(T.name \o " must not be in the blacklist", PyNone)
    ELSE IF Len(Chars(py_str(v))) > T.size
    THEN error(T.name \o " is too long. Max allowed is " \o ToString(T.size - 1), PyNone)
    ELSE Ret(PyStr(py_str(v)))

\* nameValidator(argName, regex, size, *blacklisted).validator
nameValidatorValidator(T, v) ==
    IF v = PyNone THEN error("No " \o T.name \o " specified", PyNone)
    ELSE IF ~re_match(T.re, py_str(v))
    THEN error("Invalid " \o T.name \o " \"" \o py_str(v) \o "\". Must match the regex",
               PyNone)
    ELSE IF py_str(v) \in T.blacklisted
    THEN error(T.name \o " must not be in the blacklist", PyNone)
    ELSE IF Len(Chars(py_str(v))) >= T.size
    THEN error(T.name \o " is too long. Max allowed is " \o ToString(T.size - 1), PyNone)
    ELSE Ret(PyStr(py_str(v)))

\* volumeSizeValidator(argName).validator
volumeSizeValidatorValidator(T, v) ==
    IF ~py_int(v).ok
    THEN IF py_int(v).err.kind = "ValueError"
         THEN error("Non-numeric " \o T.name \o ": " \o py_str(v), PyNone)
         ELSE py_int(v)
    ELSE IF py_int(v).val.i < 1
    THEN error("Invalid " \o T.name \o " " \o ToString(py_int(v).val.i)
               \o ". Must be positive", PyNone)
    ELSE IF py_int(v).val.i % SECTOR_SIZE # 0
    THEN error("Invalid " \o T.name \o " " \o ToString(py_int(v).val.i)
               \o ". Must be a multiple of " \o ToString(SECTOR_SIZE), PyNone)
    ELSE py_int(v)

\* A faulty intRange: max itself is not accepted.
intRangeValidator_open(T, v) ==
    IF ~py_int(v).ok
    THEN IF py_int(v).err.kind = "ValueError"
         THEN error("Invalid " \o T.name \o ". Must be an integer", PyNone)
         ELSE py_int(v)
    ELSE IF py_int(v).val.i < T.min \/ py_int(v).val.i >= T.max
    THEN error("Invalid " \o T.name, PyNone)
    ELSE py_int(v)

\* intRange(argName, min, max).validator
intRangeValidator(T, v) ==
    LET c == py_int(v) IN
    IF ~c.ok
    THEN IF c.err.kind = "ValueError"
         THEN error("Invalid " \o T.name \o ". Must be an integer", PyNone)
         ELSE c
    ELSE IF c.val.i < T.min \/ c.val.i > T.max
    THEN error("Invalid " \o T.name \o ". Must be between " \o ToString(T.min)
               \o " and " \o ToString(T.max), PyNone)
    ELSE c

\* A faulty namedEnum: first is taken to be 0.
namedEnumValidator_zero(T, v) ==
    IF ~py_int(v).ok THEN py_int(v)
    ELSE IF py_int(v).val.i < 0 \/ py_int(v).val.i >= Len(T.names)
    THEN error("Invalid " \o T.name, PyNone)
    ELSE Ret(PyStr(T.names[py_int(v).val.i + 1]))

\* namedEnum(argName, names, first).validator. The message of the ValueError
\* branch is formatted without its argName, which raises KeyError.
namedEnumValidator(T, v) ==
    LET c == py_int(v)
        end == T.first + Len(T.names)
    IN
    IF ~c.ok
    THEN IF c.err.kind = "ValueError"
         THEN Raise(Exception("KeyError", "'argName'"))
         ELSE c
    ELSE IF c.val.i < T.first \/ c.val.i >= end
    THEN error("Invalid " \o T.name \o " value " \o ToString(c.val.i)
               \o ". Must be between " \o ToString(T.first) \o " and "
               \o ToString(end - 1), PyNone)
    ELSE Ret(PyStr(T.names[c.val.i - T.first + 1]))

\* const(constVal).handleVal
constValidator(T, v) ==
    IF v = T.c THEN Ret(v)
    ELSE error("Trying to assign a value to const val", PyNone)

RECURSIVE handleVal(_, _)
RECURSIVE reduceCatch(_, _, _)

\* functools.reduce(lambda exc, x: sp_catch(append, lambda: valT(x), exc),
\* xs, None), with the values appended: st is [acc, exc].
reduceCatch(sub, xs, st) ==
    IF xs = <<>> THEN st
    ELSE reduceCatch(sub, Tail(xs), sp_catch(st.acc, handleVal(sub, Head(xs)), st.exc))

\* A faulty buildList: validation stops at the first element that fails.
buildListStop(T, v) ==
    LET it == py_iter(v) IN
    IF ~it.ok THEN it
    ELSE LET bad == {n \in 1 .. Len(it.val) : ~handleVal(T.sub, it.val[n]).ok}
             upto == IF bad = {} THEN Len(it.val)
                     ELSE (CHOOSE n \in bad : \A m \in bad : n <= m) - 1
             lst == PyList([n \in 1 .. upto |-> handleVal(T.sub, it.val[n]).val])
         IN IF bad = {} THEN Ret(lst)
            ELSE error(T.name \o ": failed", lst)

\* spList(lst).buildList
buildList(T, v) ==
    LET it == py_iter(v) IN
    IF ~it.ok THEN it
    ELSE LET st == reduceCatch(T.sub, it.val, [acc |-> <<>>, exc |-> NoExc])
             lst == PyList(st.acc)
             c == sp_caught(st.exc, T.name, lst)
         IN IF c.ok THEN Ret(lst) ELSE c

\* spSet(st).buildSet: the values are added to a set. set.add of an
\* unhashable value is outside the model: the element types of the model's
\* sets yield scalars.
buildSet(T, v) ==
    LET it == py_iter(v) IN
    IF ~it.ok THEN it
    ELSE LET st == reduceCatch(T.sub, it.val, [acc |-> <<>>, exc |-> NoExc])
             set == PySet(Range(st.acc))
             c == sp_caught(st.exc, T.name, set)
         IN IF c.ok THEN Ret(set) ELSE c

RECURSIVE dictLoop_skip(_, _, _)
\* A faulty loop of buildDict: an entry whose value fails is left out.
dictLoop_skip(T, kv, st) ==
    IF kv = <<>> THEN st
    ELSE IF handleVal(T.key, Head(kv).k).ok /\ handleVal(T.val, Head(kv).v).ok
    THEN dictLoop_skip(T, Tail(kv),
            [d |-> DictPut(st.d, handleVal(T.key, Head(kv).k).val,
                           handleVal(T.val, Head(kv).v).val),
             exc |-> st.exc, err |-> NoExc])
    ELSE dictLoop_skip(T, Tail(kv),
            [d |-> st.d,
             exc |-> IF st.exc # NoExc THEN st.exc ELSE error("failed", PyNone).err,
             err |-> NoExc])

RECURSIVE dictLoop(_, _, _)
\* The loop of buildDict over the items kv: st is [d, exc, err], err the
\* TypeError of an unhashable key, which ends the loop.
dictLoop(T, kv, st) ==
    IF kv = <<>> \/ st.err # NoExc THEN st
    ELSE LET k1 == sp_catch(<<>>, handleVal(T.key, Head(kv).k), st.exc) IN
         IF Len(k1.acc) = 1
         THEN LET v1 == sp_catch(k1.acc, handleVal(T.val, Head(kv).v), k1.exc)
                  value == IF Len(v1.acc) = 2 THEN v1.acc[2] ELSE PyNone
              IN IF Hashable(v1.acc[1])
                 THEN dictLoop(T, Tail(kv),
                        [d |-> DictPut(st.d, v1.acc[1], value),
                         exc |-> v1.exc, err |-> NoExc])
                 ELSE [d |-> st.d, exc |-> v1.exc,
                       err |-> Exception("TypeError",
                            "unhashable type: '" \o TypeName(v1.acc[1]) \o "'")]
         ELSE dictLoop(T, Tail(kv), [d |-> st.d, exc |-> k1.exc, err |-> NoExc])

\* spDict(dct).buildDict
buildDict(T, v) ==
    IF v.t # "dict"
    THEN Raise(Exception("AttributeError",
            "'" \o TypeName(v) \o "' object has no attribute 'items'"))
    ELSE LET st == dictLoop(T, v.kv, [d |-> <<>>, exc |-> NoExc, err |-> NoExc])
             d == PyDict(st.d)
             c == sp_caught(st.exc, T.name, d)
         IN IF st.err # NoExc THEN Raise(st.err)
            ELSE IF c.ok THEN Ret(d) ELSE c

RECURSIVE eitherLoop_last(_, _, _)
\* A faulty either: every component is tried, the last that succeeds wins.
eitherLoop_last(types, v, n) ==
    IF types = <<>>
    THEN [out |-> error("The value does not match any type", PyNone), tried |-> n]
    ELSE IF eitherLoop_last(Tail(types), v, n + 1).out.ok
    THEN eitherLoop_last(Tail(types), v, n + 1)
    ELSE IF handleVal(Head(types), v).ok
    THEN [out |-> handleVal(Head(types), v), tried |-> n + Len(types)]
    ELSE eitherLoop_last(Tail(types), v, n + 1)

RECURSIVE eitherLoop(_, _, _)
\* either(*types).handleVal: the loop over the types left, n of them tried
\* already. out is what handleVal returns or raises, tried the number of
\* components whose handleVal was called.
eitherLoop(types, v, n) ==
    IF types = <<>>
    THEN [out |-> error("The value does not match any type", PyNone), tried |-> n]
    ELSE IF handleVal(Head(types), v).ok
    THEN [out |-> handleVal(Head(types), v), tried |-> n + 1]
    ELSE eitherLoop(Tail(types), v, n + 1)

\* SpType.handleVal
handleVal(T, v) ==
    CASE T.k = "int" -> py_int(v)
      [] T.k = "str" -> Ret(PyStr(py_str(v)))
      [] T.k = "list" -> buildList(T, v)
      [] T.k = "set" -> buildSet(T, v)
      [] T.k = "dict" -> buildDict(T, v)
      [] T.k = "maybe" -> IF v = PyNone THEN Ret(PyNone) ELSE handleVal(T.sub, v)
      [] T.k = "internal" -> handleVal(T.sub, v)
      [] T.k = "const" -> constValidator(T, v)
      [] T.k = "intRange" -> intRangeValidator(T, v)
      [] T.k = "namedEnum" -> namedEnumValidator(T, v)
      [] T.k = "either" -> eitherLoop(T.types, v, 0).out
      [] T.k = "regex" -> regexValidator(T, v)
      [] T.k = "oneOf" -> oneOfValidator(T, v)
      [] T.k = "unlimitedInt" -> unlimitedIntValidator(T, v)
      [] T.k = "nameValidator" -> nameValidatorValidator(T, v)
      [] T.k = "volumeSize" -> volumeSizeValidatorValidator(T, v)

\* SpType.defaultVal
defaultVal(T) ==
    CASE T.k = "list" -> Ret(PyList(<<>>))
      [] T.k = "set" -> Ret(PySet({}))
      [] T.k = "dict" -> Ret(PyDict(<<>>))
      [] T.k \in {"maybe", "internal"} -> Ret(PyNone)
      [] T.k = "const" -> Ret(T.c)
      [] T.k = "either" -> error("No default value for either type", PyNone)
      [] OTHER -> error("No default value for " \o T.name, PyNone)

-----------------------------------------------------------------------------
(* spjson: record objects (JsonObjectImpl) and the JSON encoder.           *)

\* The record types declared: @JsonObject(attr=type, ...) class Name.
\* __jsonAttrDefs__ in declaration order, the order __new__ visits them in.
\* TrivialClass is the class of the unit test with flags a list of int, so
\* that an element of it can fail; Group has an internal id, a set and a map
\* like PlacementGroup and VolumeTemplateDesc; ObjectDesc has a named enum.
jsonAttrDefs(cls) ==
    CASE cls = "TrivialClass" ->
            << [attr |-> "number", def |-> spTypeInt],
               [attr |-> "name", def |-> spTypeStr],
               [attr |-> "flags", def |-> maybe(spList(spTypeInt))] >>
      [] cls = "Group" ->
            << [attr |-> "id", def |-> internal(spTypeInt)],
               [attr |-> "disks", def |-> spSet(intRange("Replication", 1, 3))],
               [attr |-> "tags",
                def |-> maybe(spDict(spTypeInt, intRange("Replication", 1, 3)))] >>
      [] cls = "ObjectDesc" ->
            << [attr |-> "volume", def |-> spTypeStr],
               [attr |-> "state",
                def |-> namedEnum("ObjectState", <<"A", "B", "C">>, 0)] >>

Classes == {"TrivialClass", "Group", "ObjectDesc"}

AttrNames(cls) == {jsonAttrDefs(cls)[n].attr : n \in 1 .. Len(jsonAttrDefs(cls))}

\* isinstance(v, cls): the record types of the model do not inherit.
IsInstance(v, cls) == v.t = "obj" /\ v.cls = cls

\* JsonObjectImpl.to_json: the fields, in the order of __jsonAttrDefs__.
to_json(o) ==
    PyDict([n \in 1 .. Len(jsonAttrDefs(o.cls)) |->
              [k |-> PyStr(jsonAttrDefs(o.cls)[n].attr),
               v |-> o.a[jsonAttrDefs(o.cls)[n].attr]]])

\* dict(json), for the raw value the constructor is given.
py_dict(json) ==
    CASE json.t = "dict" -> Ret(json.kv)
      [] json.t = "list" /\ json.l = <<>> -> Ret(<<>>)
      [] json.t = "str" ->
            Raise(Exception("ValueError",
                "dictionary update sequence element #0 has length 1; 2 is required"))
      [] OTHER ->
            Raise(Exception("TypeError",
                "'" \o TypeName(json) \o "' object is not iterable"))

RECURSIVE dictUpdate(_, _)
\* j.update(kwargs)
dictUpdate(j, kwargs) ==
    IF kwargs = <<>> THEN j
    ELSE dictUpdate(DictPut(j, Head(kwargs).k, Head(kwargs).v), Tail(kwargs))

\* What __new__ validates for one field: the raw value when the key is
\* there, the default of the type otherwise.
fieldOutcome(d, j) ==
    IF DictHas(j, PyStr(d.attr)) THEN handleVal(d.def, DictGet(j, PyStr(d.attr)))
    ELSE defaultVal(d.def)

\* The end of one turn of the loop of __new__: the field attr is data[0]
\* when sp_catch handed a value over, None otherwise; r is what sp_catch made.
newField(attr, a, r) ==
    [a |-> (attr :> (IF r.acc # <<>> THEN r.acc[1] ELSE PyNone)) @@ a,
     exc |-> r.exc]

RECURSIVE newLoop_stop(_, _, _)
\* A faulty loop: the fields after the first one that fails are not
\* validated and stay None.
newLoop_stop(defs, j, st) ==
    IF defs = <<>> THEN st
    ELSE newLoop_stop(Tail(defs), j,
            IF st.exc # NoExc THEN newField(Head(defs).attr, st.a, [acc |-> <<>>, exc |-> st.exc])
            ELSE newField(Head(defs).attr, st.a,
                          sp_catch(<<>>, fieldOutcome(Head(defs), j), st.exc)))

RECURSIVE newLoop(_, _, _)
\* The loop of __new__ over the fields defs: st is [a, exc], a the
\* __jsonAttrs__ set so far.
newLoop(defs, j, st) ==
    IF defs = <<>> THEN st
    ELSE newLoop(Tail(defs), j,
            newField(Head(defs).attr, st.a,
                     sp_catch(<<>>, fieldOutcome(Head(defs), j), st.exc)))

\* A statement with outcome c, then "return v".
Then(c, v) == IF c.ok THEN Ret(v) ELSE c

\* An instance of cls with the __jsonAttrs__ a.
Instance(cls, id, a) == [t |-> "obj", cls |-> cls, id |-> id, a |-> a]

\* The end of __new__, st what the loop made: sp_caught(exc, name, self),
\* then return self.
newReturn(cls, id, st) ==
    Then(sp_caught(st.exc, cls, Instance(cls, id, st.a)), Instance(cls, id, st.a))

\* A faulty __new__: a key of j that the class does not declare is refused,
\* as an unexpected keyword argument is.
newFrom_strict(cls, id, d, kwargs) ==
    IF ~d.ok THEN d
    ELSE IF \E n \in 1 .. Len(dictUpdate(d.val, kwargs)) :
                \A a \in AttrNames(cls) : dictUpdate(d.val, kwargs)[n].k # PyStr(a)
    THEN Raise(Exception("TypeError", "unexpected field"))
    ELSE newReturn(cls, id, newLoop(jsonAttrDefs(cls), dictUpdate(d.val, kwargs),
                                    [a |-> <<>>, exc |-> NoExc]))

\* __new__ from j = dict(json) on: d is the outcome of dict(json).
newFrom(cls, id, d, kwargs) ==
    IF ~d.ok THEN d
    ELSE newReturn(cls, id, newLoop(jsonAttrDefs(cls), dictUpdate(d.val, kwargs),
                                    [a |-> <<>>, exc |-> NoExc]))

\* A faulty __new__: an instance is validated again and gets the overrides.
JsonObjectImpl_new_again(cls, json, kwargs, id) ==
    IF IsInstance(json, cls)
    THEN newFrom(cls, id, Ret(to_json(json).kv), kwargs)
    ELSE newFrom(cls, id, py_dict(IF json = PyNone THEN PyDict(<<>>) ELSE json), kwargs)

\* JsonObjectImpl.__new__(cls, json, **kwargs); id is the identity of the
\* instance it creates, when it creates one.
JsonObjectImpl_new(cls, json, kwargs, id) ==
    IF IsInstance(json, cls)
    THEN IF kwargs # <<>>
         THEN Raise(Exception("AssertionError",
                    "Unsupported update on already contructed object"))
         ELSE Ret(json)
    ELSE newFrom(cls, id, py_dict(IF json = PyNone THEN PyDict(<<>>) ELSE json), kwargs)

\* The AttributeError of __getattr__ and __setattr__.
NoAttribute(o, attr) ==
    Raise(Exception("AttributeError",
            "'" \o o.cls \o "' has no attribute '" \o attr \o "'"))

\* JsonObjectImpl.__getattr__(attr), for a name that is no member of the class
py_getattr(o, attr) ==
    IF attr \notin DOMAIN o.a THEN NoAttribute(o, attr) ELSE Ret(o.a[attr])

\* The descriptor of the declared field attr of cls.
attrDef(cls, attr) ==
    jsonAttrDefs(cls)[CHOOSE n \in 1 .. Len(jsonAttrDefs(cls)) :
                         jsonAttrDefs(cls)[n].attr = attr].def

\* The end of __setattr__, out the outcome of handleVal(value): the value is
\* stored when handleVal returned, nothing is stored when it raised.
stored(o, attr, out) ==
    IF out.ok THEN [obj |-> [o EXCEPT !.a[attr] = out.val], out |-> Ret(PyNone)]
    ELSE [obj |-> o, out |-> out]

\* A faulty __setattr__: the partial of a failed validation is stored, as
\* the constructor does.
py_setattr_partial(o, attr, value) ==
    IF attr \notin AttrNames(o.cls) THEN [obj |-> o, out |-> NoAttribute(o, attr)]
    ELSE IF handleVal(attrDef(o.cls, attr), value).ok
    THEN stored(o, attr, handleVal(attrDef(o.cls, attr), value))
    ELSE [obj |-> [o EXCEPT !.a[attr] =
                      IF handleVal(attrDef(o.cls, attr), value).err.kind = IAE
                      THEN handleVal(attrDef(o.cls, attr), value).err.partial
                      ELSE PyNone],
          out |-> handleVal(attrDef(o.cls, attr), value)]

\* A faulty __setattr__: a name that is not declared is stored as it is.
py_setattr_any(o, attr, value) ==
    IF attr \notin AttrNames(o.cls)
    THEN [obj |-> [o EXCEPT !.a = (attr :> value) @@ @], out |-> Ret(PyNone)]
    ELSE stored(o, attr, handleVal(attrDef(o.cls, attr), value))

\* JsonObjectImpl.__setattr__(attr, value): the instance afterwards, and
\* what the assignment returned or raised.
py_setattr(o, attr, value) ==
    IF attr \notin AttrNames(o.cls) THEN [obj |-> o, out |-> NoAttribute(o, attr)]
    ELSE stored(o, attr, handleVal(attrDef(o.cls, attr), value))

\* The class decorated, as far as JsonObject.__call__ looks at it: whether
\* it is a subclass of JsonObjectImpl, and the __jsonAttrDefs__ it inherits.
RecordBase(attrDefs) == [isRecord |-> TRUE, attrDefs |-> attrDefs]
NoBase == [isRecord |-> FALSE, attrDefs |-> <<>>]

\* A faulty JsonObject.__call__: the mapping of the parent is updated in
\* place instead of a copy of it.
JsonObject_call_inplace(attrDefs, base) ==
    IF base.isRecord
    THEN [attrDefs |-> dictUpdate(base.attrDefs, attrDefs),
          base |-> dictUpdate(base.attrDefs, attrDefs)]
    ELSE [attrDefs |-> attrDefs, base |-> base.attrDefs]

\* JsonObject(**attrDefs)(cls): the __jsonAttrDefs__ of the class made, and
\* those of the parent afterwards.
JsonObject_call(attrDefs, base) ==
    IF base.isRecord
    THEN [attrDefs |-> dictUpdate(base.attrDefs, attrDefs), base |-> base.attrDefs]
    ELSE [attrDefs |-> attrDefs, base |-> base.attrDefs]

\* The key of a JSON object member, for a dict key.
jsonKey(key) ==
    CASE key.t = "str" -> key.s
      [] key.t = "int" -> ToString(key.i)
      [] key.t = "none" -> "null"

\* The elements of sequence q that are in set S, in the order of q.
RECURSIVE Pick(_, _)
Pick(q, S) ==
    IF q = <<>> THEN <<>>
    ELSE (IF Head(q) \in S THEN <<Head(q)>> ELSE <<>>) \o Pick(Tail(q), S)

\* dumps(v): the JSON document, as a tree. JsonEncoder.default turns a
\* record into its to_json() and a set into a list; order is the order the
\* elements of a set are listed in.
RECURSIVE dumps(_, _)
dumps(v, order) ==
    CASE v.t = "none" -> [j |-> "null"]
      [] v.t = "int" -> [j |-> "number", n |-> v.i]
      [] v.t = "str" -> [j |-> "string", s |-> v.s]
      [] v.t = "list" ->
            [j |-> "array", items |-> [n \in 1 .. Len(v.l) |-> dumps(v.l[n], order)]]
      [] v.t = "set" -> dumps(PyList(Pick(order, v.e)), order)
      [] v.t = "obj" -> dumps(to_json(v), order)
      [] v.t = "dict" ->
            [j |-> "object",
             members |-> [n \in 1 .. Len(v.kv) |->
                            [k |-> jsonKey(v.kv[n].k), v |-> dumps(v.kv[n].v, order)]]]

RECURSIVE loads(_)
RECURSIVE loadMembers(_, _)
\* The dict of the members ms of a JSON object: a later member replaces an
\* earlier one of the same name.
loadMembers(ms, kv) ==
    IF ms = <<>> THEN kv
    ELSE loadMembers(Tail(ms), DictPut(kv, PyStr(Head(ms).k), loads(Head(ms).v)))

\* loads(text): the Python value of a JSON document.
loads(doc) ==
    CASE doc.j = "null" -> PyNone
      [] doc.j = "number" -> PyInt(doc.n)
      [] doc.j = "string" -> PyStr(doc.s)
      [] doc.j = "array" -> PyList([n \in 1 .. Len(doc.items) |-> loads(doc.items[n])])
      [] doc.j = "object" -> PyDict(loadMembers(doc.members, <<>>))

-----------------------------------------------------------------------------
(* spapi: API methods (_API_METHOD) and the functions compile() makes.     *)

\* _API_ARG(name, validate)
API_ARG(name, validate) == [name |-> name, type |-> validate]

\* "json is None": the method declares no body type.
NoJson == [k |-> "None"]

\* _API_METHOD(method, multiCluster, query, args, json, returns). The query
\* template is a sequence of pieces, literal text and {name} fields.
API_METHOD(method, multiCluster, query, args, json, returns) ==
    [method |-> method, multiCluster |-> multiCluster, query |-> query,
     args |-> args, json |-> json, returns |-> returns]

Lit(text) == [lit |-> text]
Field(name) == [field |-> name]

GET(multiCluster, query, args, json, returns) ==
    API_METHOD("GET", multiCluster, query, args, json, returns)

POST(multiCluster, query, args, json, returns) ==
    API_METHOD("POST", multiCluster, query, args, json, returns)

\* kwargs.get(key, default)
py_get(kwargs, key, default) ==
    IF DictHas(kwargs, PyStr(key)) THEN DictGet(kwargs, PyStr(key)) ELSE default

\* A faulty GET: a declaration with a json keyword is refused.
declareGET_nobody(query, args, kwargs) ==
    IF ~DictHas(kwargs, PyStr("returns")) \/ DictHas(kwargs, PyStr("json"))
    THEN Raise(Exception("AssertionError", "GET requests must specify a return type"))
    ELSE Ret(GET(py_get(kwargs, "multiCluster", PyBool(FALSE)).b, query, args,
                 NoJson, DictGet(kwargs, PyStr("returns"))))

\* GET(query, *args, **kwargs), the keywords as the caller wrote them: the
\* method declared, or the AssertionError of the assert.
declareGET(query, args, kwargs) ==
    IF ~DictHas(kwargs, PyStr("returns"))
    THEN Raise(Exception("AssertionError", "GET requests must specify a return type"))
    ELSE Ret(GET(py_get(kwargs, "multiCluster", PyBool(FALSE)).b, query, args,
                 py_get(kwargs, "json", NoJson), DictGet(kwargs, PyStr("returns"))))

\* doc.TypeDoc(name, desc): a documentation node.
TypeDoc(name, desc) == [name |-> name, desc |-> desc]

\* "spDoc is None": the descriptor carries no documentation node.
NoDoc == [none |-> TRUE]

\* The spDoc member of the SpType the combinators build.
spDoc(T) ==
    CASE T.k = "maybe" ->
            TypeDoc("Optional", "If present must be of type " \o T.sub.name)
      [] T.k = "internal" ->
            TypeDoc("Internal", "An internal attribute used only for debugging.")
      [] T.k = "int" -> TypeDoc("int", "An integer value.")
      [] T.k = "str" -> TypeDoc("string", "A string value.")
      [] OTHER -> TypeDoc(T.name, "")

\* _API_ARG.defstr, doc the spDoc of the type of the argument: the
\* parameter of func, with the default None or without a default.
defstr(name, doc) ==
    IF doc = NoDoc
    THEN Raise(Exception("AttributeError", "'NoneType' object has no attribute 'name'"))
    ELSE Ret([name |-> name, default |-> doc.name = "Optional"])

\* func(api) of a method with one argument, called without it: par is the
\* parameter defstr made, T the type of the argument.
calledWithout(par, T) ==
    IF par.default THEN handleVal(T, PyNone)
    ELSE Raise(Exception("TypeError", "func() takes at least 2 arguments (1 given)"))

\* compile: args = list(args), with _API_ARG('json', json) appended when the
\* method declares a body type.
compileArgs(m) ==
    IF m.json = NoJson THEN m.args ELSE Append(m.args, API_ARG("json", m.json))

\* The text of a template that is not formatted.
RECURSIVE templateText(_)
templateText(template) ==
    IF template = <<>> THEN ""
    ELSE (IF "lit" \in DOMAIN Head(template) THEN Head(template).lit
          ELSE "{" \o Head(template).field \o "}") \o templateText(Tail(template))

\* template.format(name=value, ...): every field replaced by the text of
\* the value of that name, KeyError for a field no argument has the name of.
RECURSIVE py_format(_, _, _)
py_format(template, args, values) ==
    IF template = <<>> THEN Ret("")
    ELSE IF "lit" \in DOMAIN Head(template)
    THEN IF py_format(Tail(template), args, values).ok
         THEN Ret(Head(template).lit \o py_format(Tail(template), args, values).val)
         ELSE py_format(Tail(template), args, values)
    ELSE IF \A n \in 1 .. Len(args) : args[n].name # Head(template).field
    THEN Raise(Exception("KeyError", "'" \o Head(template).field \o "'"))
    ELSE IF py_format(Tail(template), args, values).ok
    THEN Ret(py_str(values[CHOOSE n \in 1 .. Len(args) :
                              args[n].name = Head(template).field])
             \o py_format(Tail(template), args, values).val)
    ELSE py_format(Tail(template), args, values)

\* query = "<query>", formatted with the arguments when there are any.
compileQuery(m, values) ==
    IF compileArgs(m) = <<>> THEN Ret(templateText(m.query))
    ELSE py_format(m.query, compileArgs(m), values)

\* "return is pending": the function has not returned or raised yet.
Pending == [pending |-> TRUE]

\* The frame of func(self, *args, clusterName=clusterName) at its start.
Frame(m, args, clusterName) ==
    [m |-> m, args |-> args, clusterName |-> clusterName, pc |-> "validate",
     validated |-> <<>>, query |-> "", resp |-> Pending, ret |-> Pending]

\* A faulty "arg = _validate_arg(arg)": an argument that fails is passed on
\* as it was given.
validated_lenient(c, out) ==
    [c EXCEPT !.validated =
        Append(@, IF out.ok THEN out.val ELSE c.args[Len(c.validated) + 1])]

\* arg = _validate_arg(arg), out the outcome of the validation: the
\* function goes on with the validated value, or raises.
validated(c, out) ==
    IF out.ok THEN [c EXCEPT !.validated = Append(@, out.val)]
    ELSE [c EXCEPT !.pc = "done", !.ret = out]

\* query = "...".format(...), out its outcome.
formatted(c, out) ==
    IF out.ok THEN [c EXCEPT !.pc = "transport", !.query = out.val]
    ELSE [c EXCEPT !.pc = "done", !.ret = out]

\* A faulty call of the transport: clusterName is not passed on.
transportCall_local(c) ==
    [method |-> c.m.method, multiCluster |-> c.m.multiCluster, query |-> c.query,
     json |-> IF c.m.json = NoJson THEN PyNone ELSE c.validated[Len(c.validated)],
     clusterName |-> PyNone]

\* self("<method>", <multiCluster>, query, <json>, clusterName=clusterName):
\* what the transport is called with.
transportCall(c) ==
    [method |-> c.m.method, multiCluster |-> c.m.multiCluster, query |-> c.query,
     json |-> IF c.m.json = NoJson THEN PyNone ELSE c.validated[Len(c.validated)],
     clusterName |-> c.clusterName]

\* res = self(...), resp the outcome of the transport: an error of the
\* transport leaves the function.
responded(c, resp) ==
    IF resp.ok THEN [c EXCEPT !.pc = "decode", !.resp = resp]
    ELSE [c EXCEPT !.pc = "done", !.resp = resp, !.ret = resp]

\* A faulty decoding: the InvalidArgumentError is raised with its partial.
decodeReturn_raise(out) == out

\* try: return returns(res); except InvalidArgumentError as e: return
\* e.partial when it is not None, raise otherwise.
decodeReturn(out) ==
    IF ~out.ok /\ out.err.kind = IAE /\ out.err.partial # PyNone
    THEN Ret(out.err.partial)
    ELSE out

RECURSIVE clear_none(_, _)
RECURSIVE clearPlain(_, _)
RECURSIVE clearItems_shallow(_, _)
RECURSIVE clearItems(_, _)
RECURSIVE clearEntries(_, _)

\* A faulty list comprehension: the items that are kept are not cleared.
clearItems_shallow(items, order) ==
    IF items = <<>> THEN <<>>
    ELSE (IF Head(items) = PyNone THEN <<>> ELSE <<Head(items)>>)
         \o clearItems_shallow(Tail(items), order)

\* [clear_none(item) for item in data if item is not None]
clearItems(items, order) ==
    IF items = <<>> THEN <<>>
    ELSE (IF Head(items) = PyNone THEN <<>>
          ELSE <<clear_none(Head(items), order)>>)
         \o clearItems(Tail(items), order)

\* dict([(item[0], clear_none(item[1])) for item in data.items()
\*       if item[1] is not None])
clearEntries(kv, order) ==
    IF kv = <<>> THEN <<>>
    ELSE (IF Head(kv).v = PyNone THEN <<>>
          ELSE <<[k |-> Head(kv).k, v |-> clear_none(Head(kv).v, order)]>>)
         \o clearEntries(Tail(kv), order)

\* clear_none from "if isinstance(data, dict)" on; order is the order the
\* elements of a set are listed in.
clearPlain(data, order) ==
    CASE data.t = "dict" -> PyDict(clearEntries(data.kv, order))
      [] data.t = "list" -> PyList(clearItems(data.l, order))
      [] data.t = "set" -> PyList(clearItems(Pick(order, data.e), order))
      [] OTHER -> data

\* clear_none(data): a value with a to_json method is replaced by what the
\* method returns first.
clear_none(data, order) ==
    IF data.t = "obj" THEN clearPlain(to_json(data), order)
    ELSE clearPlain(data, order)

\* json = js.dumps(clear_none(json)) when json is not None: the body
\* Api.__call__ sends, NoBody for none.
NoBody == [j |-> "absent"]
bodyOf(json, order) ==
    IF json = PyNone THEN NoBody ELSE dumps(clear_none(json, order), order)

\* The frame of one invocation of buildList (kind "list", of the type T on
\* the elements input) or of JsonObjectImpl.__new__ (kind "record", of the
\* class cls on the raw map input) at the start of its loop: n turns are
\* done, lst, a and exc are the locals lst, self.__jsonAttrs__ and exc.
ListFrame(T, xs) ==
    [kind |-> "list", T |-> T, cls |-> "", input |-> xs, n |-> 0,
     lst |-> <<>>, a |-> <<>>, exc |-> NoExc, pc |-> "loop", out |-> Pending]
RecordFrame(cls, j) ==
    [kind |-> "record", T |-> spTypeInt, cls |-> cls, input |-> j, n |-> 0,
     lst |-> <<>>, a |-> <<>>, exc |-> NoExc, pc |-> "loop", out |-> Pending]

\* The turns the loop of a frame makes.
turns(f) == IF f.kind = "list" THEN Len(f.input) ELSE Len(jsonAttrDefs(f.cls))

\* The frame after a turn of the loop in buildList, r what sp_catch made.
listTurned(f, r) == [f EXCEPT !.n = @ + 1, !.lst = r.acc, !.exc = r.exc]

\* The frame after a turn of the loop in __new__, r what the turn made.
fieldTurned(f, r) == [f EXCEPT !.n = @ + 1, !.a = r.a, !.exc = r.exc]

\* One turn of the loop of a frame: exc = sp_catch(...) on its own locals.
turn(f) ==
    IF f.kind = "list"
    THEN listTurned(f, sp_catch(f.lst, handleVal(f.T.sub, f.input[f.n + 1]), f.exc))
    ELSE fieldTurned(f,
            newField(jsonAttrDefs(f.cls)[f.n + 1].attr, f.a,
                     sp_catch(<<>>, fieldOutcome(jsonAttrDefs(f.cls)[f.n + 1], f.input),
                              f.exc)))

\* The end of the invocation: sp_caught(exc, name, lst or self), then return.
leave(f, id) ==
    [f EXCEPT !.pc = "done",
              !.out = IF f.kind = "list"
                      THEN Then(sp_caught(f.exc, f.T.name, PyList(f.lst)), PyList(f.lst))
                      ELSE newReturn(f.cls, id, [a |-> f.a, exc |-> f.exc])]

\* A faulty turn: the list the values are appended to is one list that
\* every invocation shares.
turnOf_shared(frames, t) ==
    [u \in DOMAIN frames |->
        IF u = t THEN turn(frames[t])
        ELSE [frames[u] EXCEPT !.lst = turn(frames[t]).lst]]

\* One turn of the loop of thread t: the locals of its own frame change,
\* no other frame does.
turnOf(frames, t) == [frames EXCEPT ![t] = turn(frames[t])]

\* socket.error(errno, ...) and http.HTTPException, the exceptions of a
\* connection.
SockError(errno) == [kind |-> "socket.error", errno |-> errno]
HTTPException == [kind |-> "HTTPException"]

\* json['error'].get(key, default)
errorGet(json, key, default) ==
    IF key \in DOMAIN json.error THEN json.error[key] ELSE default

\* ApiError(status, json)
ApiError(status, json) ==
    [kind |-> "ApiError", status |-> status, json |-> json,
     name |-> errorGet(json, "name", "<Missing error name>"),
     desc |-> errorGet(json, "descr", "<Missing error description>"),
     transient |-> errorGet(json, "transient", FALSE)]

\* KeyError(key), of a subscript with a key that is not there.
KeyError(key) == Exception("KeyError", "'" \o key \o "'")

\* is_transient_error(err), for a socket.error or an http.HTTPException
is_transient_error(err) ==
    IF err.kind = "HTTPException" THEN TRUE
    ELSE err.errno \in {"ECONNREFUSED", "ECONNRESET"}

SP_API_PREFIX == "/ctrl/1.0"

\* A faulty _format_path: the MultiCluster component comes first.
format_path_multi_first(query, multiCluster, clusterName) ==
    SP_API_PREFIX \o "/"
    \o (IF multiCluster THEN "MultiCluster/" ELSE "")
    \o (IF clusterName # PyNone
        THEN "RemoteCommand/" \o py_str(clusterName) \o "/" ELSE "")
    \o query

\* _format_path(query, multiCluster, clusterName)
format_path(query, multiCluster, clusterName) ==
    SP_API_PREFIX \o "/"
    \o (IF clusterName # PyNone
        THEN "RemoteCommand/" \o py_str(clusterName) \o "/" ELSE "")
    \o (IF multiCluster THEN "MultiCluster/" ELSE "")
    \o query

\* The Api object, as far as __call__ reads it.
Api(transientRetries, multiCluster) ==
    [transientRetries |-> transientRetries, multiCluster |-> multiCluster]

\* The arguments of self(method, multiCluster, query, json, clusterName).
CallArgs(method, multiCluster, query, json, clusterName) ==
    [method |-> method, multiCluster |-> multiCluster, query |-> query,
     json |-> json, clusterName |-> clusterName]

\* The frame of Api.__call__ before the first turn of its loop: json is the
\* text dumped, sent the requests conn.request was called with.
Request(self, args, order) ==
    [transientRetries |-> self.transientRetries, apiMultiCluster |-> self.multiCluster,
     method |-> args.method, multiCluster |-> args.multiCluster,
     query |-> args.query, clusterName |-> args.clusterName,
     json |-> bodyOf(args.json, order),
     retry |-> 0, lastErr |-> NoExc, attempts |-> <<>>, sent |-> <<>>,
     slept |-> <<>>, pc |-> "try", ret |-> Pending]

\* uquote.quote(json, safe=''): the text of the document, URL-quoted.
quote(json) == [quoted |-> json]

\* "if method == 'GET' and json": the JSON text goes into the path.
jsonInPath(c) == c.method = "GET" /\ c.json # NoBody

\* The path of the request: the path formatted and, for a GET with JSON,
\* "?json=" and the text quoted.
pathOf(c) ==
    [path |-> format_path(c.query, c.multiCluster /\ c.apiMultiCluster, c.clusterName),
     json |-> IF jsonInPath(c) THEN quote(c.json) ELSE NoBody]

\* path = _format_path(...); path += "?json=" ... and json = None for a GET
\* with JSON; conn.request(method, path, json, self._authHeader)
requested(c) ==
    [c EXCEPT !.sent = Append(@, [method |-> c.method, path |-> pathOf(c),
                                   body |-> IF jsonInPath(c) THEN NoBody ELSE c.json]),
              !.json = IF jsonInPath(c) THEN NoBody ELSE @]

\* return jres['data'], or an exception that leaves __call__.
returned(c, out) == [c EXCEPT !.pc = "done", !.ret = out]

\* A faulty end of a turn: one more attempt is made.
retryOrRaise_more(c, err) ==
    IF c.retry <= c.transientRetries
    THEN [c EXCEPT !.lastErr = err, !.pc = "sleep"]
    ELSE [c EXCEPT !.lastErr = err, !.pc = "done", !.ret = Raise(err)]

\* lastErr = err, and the end of the turn: the loop goes on to sleep when
\* retry < transientRetries, and raises lastErr otherwise.
retryOrRaise(c, err) ==
    IF c.retry < c.transientRetries
    THEN [c EXCEPT !.lastErr = err, !.pc = "sleep"]
    ELSE [c EXCEPT !.lastErr = err, !.pc = "done", !.ret = Raise(err)]

\* The try statement when the server answered with status and jres.
answered(c, status, jres) ==
    IF status # 200 \/ "error" \in DOMAIN jres
    THEN IF "error" \notin DOMAIN jres THEN returned(c, Raise(KeyError("error")))
         ELSE IF c.transientRetries # 0 /\ ApiError(status, jres).transient
         THEN retryOrRaise(c, ApiError(status, jres))
         ELSE returned(c, Raise(ApiError(status, jres)))
    ELSE IF "data" \in DOMAIN jres THEN returned(c, Ret(jres.data))
    ELSE returned(c, Raise(KeyError("data")))

\* The try statement when the connection, the request or the reading of
\* the response raised err: the except clause is for socket.error and
\* http.HTTPException alone.
failed(c, err) ==
    IF /\ err.kind \in {"socket.error", "HTTPException"}
       /\ c.transientRetries # 0
       /\ is_transient_error(err)
    THEN retryOrRaise(c, err)
    ELSE returned(c, Raise(err))

\* One turn of the loop of __call__, a what the connection did.
attempt(c, a) ==
    IF a.kind = "response"
    THEN answered(requested([c EXCEPT !.attempts = Append(@, a)]), a.status, a.jres)
    ELSE failed(requested([c EXCEPT !.attempts = Append(@, a)]), a.err)

\* time.sleep(self._transientSleep(retry)); retry += 1
slept(c) ==
    [c EXCEPT !.slept = Append(@, c.retry), !.retry = @ + 1, !.pc = "try"]

IdleRec == obj = Idle /\ made = Idle /\ op = Idle
IdleType == tp = Idle /\ raw = Idle /\ res = Idle
IdleApi == call = Idle /\ calls = Idle
IdleDecl == decl = Idle
IdleReq == req = Idle
IdleThreads == threads = Idle

-----------------------------------------------------------------------------
(* A sequence of sp_catch calls threading the error, ended by sp_caught,   *)
(* as in buildList, buildSet, buildDict and JsonObjectImpl.__new__.        *)

\* What func() may do in step n: return a value, raise a plain exception,
\* raise InvalidArgumentError with or without a partial (test_spcatch.py).
ThunkOutcomes(n) ==
    { Ret(PyInt(616)),
      Raise([Exception("ValueError", "whee") EXCEPT !.id = n]),
      Raise([InvalidArgumentError("static", PyInt(42)) EXCEPT !.id = n]),
      Raise([InvalidArgumentError("static", PyNone) EXCEPT !.id = n]),
      Raise([InvalidArgumentError("nested", PyList(<<PyInt(1)>>)) EXCEPT !.id = n]) }

\* The error the first call is given: None, or one remembered earlier.
OldExcs ==
    { NoExc,
      [Exception("ValueError", "foo") EXCEPT !.id = -1],
      [InvalidArgumentError("old", PyNone) EXCEPT !.id = -2] }

CatchNames == {"[int]", "TrivialClass"}

InitCatch ==
    /\ exc \in OldExcs
    /\ result = <<>>
    /\ steps = <<>>
    /\ caught = Idle
    /\ IdleType
    /\ IdleRec
    /\ IdleApi
    /\ IdleDecl
    /\ IdleReq
    /\ IdleThreads

IdleCatch == exc = Idle /\ result = Idle /\ steps = Idle /\ caught = Idle

\* exc = sp_catch(result.append, func, exc)
CatchStep(out) ==
    /\ caught = Idle
    /\ Len(steps) < MaxSteps
    /\ LET r == sp_catch(result, out, exc) IN
       /\ exc' = r.exc
       /\ result' = r.acc
       /\ steps' = Append(steps,
            [out |-> out, before |-> exc, after |-> r.exc,
             handled |-> SubSeq(r.acc, Len(result) + 1, Len(r.acc))])
    /\ UNCHANGED <<caught, typeVars, recVars, apiVars, declVars, reqVars, threadVars>>

\* sp_caught(exc, name, result). The InvalidArgumentError remembered is
\* changed in place, so exc shows its new message and partial.
Caught(name) ==
    /\ caught = Idle
    /\ LET c == sp_caught(exc, name, PyList(result)) IN
       /\ caught' = [name |-> name, partial |-> PyList(result), exc |-> exc, out |-> c]
       /\ exc' = IF exc # NoExc /\ exc.kind = IAE THEN c.err ELSE exc
    /\ UNCHANGED <<result, steps, typeVars, recVars, apiVars, declVars, reqVars, threadVars>>

NextCatch ==
    \/ \E out \in ThunkOutcomes(Len(steps) + 1) : CatchStep(out)
    \/ \E name \in CatchNames : Caught(name)

SpecCatch == InitCatch /\ [][NextCatch]_vars


\* The errors seen up to step n, oldest first: the one the first call was
\* given, then the one of every call whose func raised.
RECURSIVE ErrsUpTo(_)
ErrsUpTo(n) ==
    IF n = 0
    THEN IF steps[1].before = NoExc THEN <<>> ELSE <<steps[1].before>>
    ELSE IF steps[n].out.ok THEN ErrsUpTo(n - 1)
    ELSE Append(ErrsUpTo(n - 1), steps[n].out.err)

FirstIn(errs, S) == errs[CHOOSE i \in S : \A j \in S : i <= j]

C8_CaughtRaises ==
    caught # Idle =>
        LET e == caught.exc
            c == caught.out
        IN
        /\ e = NoExc => c = Ret(PyNone)
        /\ (e # NoExc /\ e.kind = IAE) =>
              /\ ~c.ok
              /\ c.err = [e EXCEPT !.message = caught.name \o ": " \o e.message,
                                   !.partial = caught.partial]
              /\ exc = c.err
        /\ (e # NoExc /\ e.kind # IAE) =>
              /\ ~c.ok
              /\ c.err.kind = IAE
              /\ c.err.id # e.id
              /\ c.err.message = caught.name \o ": " \o e.message
              /\ c.err.partial = caught.partial
              /\ exc = e

\* sp_caught re-raised an InvalidArgumentError of the sequence with a
\* partial it did not carry before.
C8_Witness ==
    /\ caught # Idle
    /\ caught.exc # NoExc
    /\ caught.exc.kind = IAE
    /\ caught.exc.id >= 1
    /\ Len(caught.partial.l) >= 2
    /\ caught.out.err.partial # caught.exc.partial
    /\ caught.out.err.id = caught.exc.id

-----------------------------------------------------------------------------
(* One use of a type descriptor: handleVal on a raw value, or defaultVal.  *)

\* intRange('Replication', 1, 3), sptypes.py
VolumeReplication == intRange("Replication", 1, 3)
\* A namedEnum of three names counted from 0.
Letters == namedEnum("Letters", <<"A", "B", "C">>, 0)

List == spList(spTypeInt)
ListList == spList(List)
Set == spSet(spTypeInt)
Dict == spDict(spTypeInt, VolumeReplication)
\* A map whose values are lists, so that a value can fail with a partial.
DictList == spDict(VolumeReplication, List)

TypeDescs ==
    { spTypeInt, spTypeStr, VolumeReplication, Letters, const(PyStr("x")),
      List, ListList, spList(maybe(spTypeInt)), spList(VolumeReplication),
      Set, Dict, DictList, maybe(List), internal(spTypeInt),
      either(<<VolumeReplication, spTypeStr>>), either(<<List, VolumeReplication>>),
      either(<<VolumeReplication, Letters, List>>), eitherOr(VolumeReplication, PyStr("x")) }

ScalarRaw == {PyInt(1), PyInt(4), PyStr("x"), PyStr("2"), PyNone}

InnerLists ==
    { PyList(<<>>),
      PyList(<<PyInt(1), PyInt(2)>>),
      PyList(<<PyStr("x")>>),
      PyList(<<PyInt(3), PyStr("x"), PyInt(4)>>) }

ElemRaw == ScalarRaw \cup InnerLists

RawLists == {PyList(l) : l \in UNION {[1 .. n -> ElemRaw] : n \in 0 .. MaxLen}}

RawDicts ==
    { PyDict(<<>>),
      PyDict(<<[k |-> PyInt(1), v |-> PyInt(2)]>>),
      PyDict(<<[k |-> PyInt(1), v |-> PyInt(2)], [k |-> PyStr("x"), v |-> PyInt(3)],
               [k |-> PyInt(4), v |-> PyStr("x")], [k |-> PyStr("2"), v |-> PyInt(1)]>>),
      PyDict(<<[k |-> PyInt(1), v |-> PyList(<<PyInt(1), PyInt(2)>>)],
               [k |-> PyInt(2), v |-> PyList(<<PyInt(3), PyStr("x"), PyInt(4)>>)],
               [k |-> PyInt(4), v |-> PyList(<<PyInt(1)>>)],
               [k |-> PyInt(3), v |-> PyInt(1)]>>) }

RawValues == ScalarRaw \cup RawLists \cup RawDicts

\* Integer ranges of every pair of limits, the empty ones included.
RangeDescs == {intRange("Range", lo, hi) : lo \in 0 .. 2, hi \in 1 .. 3}

\* Named enums counted from several values of first.
EnumDescs ==
    {namedEnum("Letters", <<"A", "B", "C">>, first) : first \in -1 .. 2}
    \cup {namedEnum("Pair", <<"A", "B">>, 1)}

\* ^[A-Za-z0-9_\-]+$, over the characters of the model's strings.
NamePattern ==
    [class |-> {"h", "d", "i", "s", "k", "l", "t", "x", "B", "_", "-",
                "0", "1", "2", "3", "4", "5", "6", "7"},
     least |-> 1]

\* Name validators of sizes 4 and 5 that reserve "list".
NameDescs ==
    {nameValidator("PlacementGroupName", NamePattern, size, {"list"}) : size \in 4 .. 5}

\* The named validators of sptypes.
NamedDescs ==
    RangeDescs \cup EnumDescs \cup NameDescs
    \cup { VolumeReplication, const(PyStr("x")), regex("SubClusterId", NamePattern),
           oneOf("PeerStatus", {PyStr("up"), PyStr("down")}),
           unlimitedInt("Bandwidth", 0, PyStr("-")), volumeSizeValidator("Size") }

\* The raw values the named validators are given: integers, strings, None,
\* lists and a map.
NamedRaw ==
    {PyInt(i) : i \in IntDom} \cup {PyInt(SECTOR_SIZE), PyInt(SECTOR_SIZE + 1)}
    \cup {PyStr(s) : s \in {"x", "2", "-1", "-", "", "B", "up",
                             "hd", "h#d", "disk", "list", "disks"}}
    \cup {PyNone, PyList(<<>>), PyList(<<PyInt(1)>>), PyDict(<<>>)}

InitType ==
    /\ \/ tp \in TypeDescs /\ raw \in RawValues
       \/ tp \in NamedDescs /\ raw \in NamedRaw
    /\ res = Idle
    /\ IdleCatch
    /\ IdleRec
    /\ IdleApi
    /\ IdleDecl
    /\ IdleReq
    /\ IdleThreads

\* tp.handleVal(raw)
Validate ==
    /\ res = Idle
    /\ res' = [op |-> "handleVal", out |-> handleVal(tp, raw)]
    /\ UNCHANGED <<tp, raw, catchVars, recVars, apiVars, declVars, reqVars, threadVars>>

\* tp.defaultVal()
Default ==
    /\ res = Idle
    /\ res' = [op |-> "defaultVal", out |-> defaultVal(tp)]
    /\ UNCHANGED <<tp, raw, catchVars, recVars, apiVars, declVars, reqVars, threadVars>>

NextType == Validate \/ Default

SpecType == InitType /\ [][NextType]_vars

\* What a list validation keeps of the outcomes of its elements, in order:
\* the value of each that validated, the partial of each that failed with
\* one; the others are left out.
RECURSIVE Kept(_)
Kept(outs) ==
    IF outs = <<>> THEN <<>>
    ELSE LET o == Head(outs) IN
         (IF o.ok THEN <<o.val>>
          ELSE IF o.err.kind = IAE /\ o.err.partial # PyNone THEN <<o.err.partial>>
          ELSE <<>>) \o Kept(Tail(outs))

\* C2: list-of(T) on a list returns the list of the validated elements when
\* every element validates; otherwise it raises InvalidArgumentError whose
\* partial is, in input order, the value of every element that validated and
\* the partial of every element that failed with one.
C2_ListPartial ==
    (res # Idle /\ res.op = "handleVal" /\ tp.k = "list" /\ raw.t = "list") =>
        LET outs == [n \in 1 .. Len(raw.l) |-> handleVal(tp.sub, raw.l[n])] IN
        IF \A n \in 1 .. Len(outs) : outs[n].ok
        THEN res.out = Ret(PyList([n \in 1 .. Len(outs) |-> outs[n].val]))
        ELSE /\ ~res.out.ok
             /\ res.out.err.kind = IAE
             /\ res.out.err.partial = PyList(Kept(outs))

\* A list of lists whose first element failed without a partial, whose
\* second failed with one, and whose third validated: the partial holds the
\* partial of the second and the value of the third.
C2_Witness ==
    /\ res # Idle
    /\ res.op = "handleVal"
    /\ tp = ListList
    /\ raw = PyList(<<PyInt(1), PyList(<<PyInt(3), PyStr("x"), PyInt(4)>>),
                      PyList(<<PyInt(1), PyInt(2)>>)>>)
    /\ ~res.out.ok
    /\ res.out.err.partial =
          PyList(<<PyList(<<PyInt(3), PyInt(4)>>), PyList(<<PyInt(1), PyInt(2)>>)>>)


\* tp.handleVal(raw) was called.
Validated == res # Idle /\ res.op = "handleVal"

\* The call failed with InvalidArgumentError.
Rejected == ~res.out.ok /\ res.out.err.kind = IAE

\* C13: intRange(name, min, max) accepts the integer i if and only if
\* min <= i <= max, and returns i.
C13_IntRange ==
    (Validated /\ tp.k = "intRange" /\ raw.t = "int") =>
        IF tp.min <= raw.i /\ raw.i <= tp.max THEN res.out = Ret(raw) ELSE Rejected

\* Replication, the range (1, 3), rejects 4.
C13_Witness ==
    /\ Validated
    /\ tp = VolumeReplication
    /\ raw = PyInt(4)
    /\ Rejected

\* C14: namedEnum(name, names, first) maps the integer v to names[v - first]
\* if and only if first <= v < first + len(names), and fails for every
\* other integer.
C14_NamedEnum ==
    (Validated /\ tp.k = "namedEnum" /\ raw.t = "int") =>
        IF tp.first <= raw.i /\ raw.i < tp.first + Len(tp.names)
        THEN res.out = Ret(PyStr(tp.names[raw.i - tp.first + 1]))
        ELSE Rejected

\* The enum A, B, C counted from 2 maps 3 to B.
C14_Witness ==
    /\ Validated
    /\ tp = namedEnum("Letters", <<"A", "B", "C">>, 2)
    /\ raw = PyInt(3)
    /\ res.out = Ret(PyStr("B"))

\* A name validator was applied to a string.
NameValidated == Validated /\ tp.k = "nameValidator" /\ raw.t = "str"

\* C15, as stated: nameValidator accepts a string if and only if it matches
\* the regex, is not blacklisted and is no longer than size; every other
\* string is rejected with InvalidArgumentError.
C15_NameUpToSize ==
    NameValidated =>
        IF /\ re_match(tp.re, raw.s)
           /\ raw.s \notin tp.blacklisted
           /\ Len(Chars(raw.s)) <= tp.size
        THEN res.out = Ret(raw)
        ELSE Rejected

\* C15, amended: nameValidator accepts a string if and only if it matches
\* the regex, is not blacklisted and is shorter than size, that is at most
\* size - 1 characters long; every other string is rejected with
\* InvalidArgumentError.
C15_NameBelowSize ==
    NameValidated =>
        IF /\ re_match(tp.re, raw.s)
           /\ raw.s \notin tp.blacklisted
           /\ Len(Chars(raw.s)) < tp.size
        THEN res.out = Ret(raw)
        ELSE Rejected

\* A name validator of size 4 rejects "disk", which has 4 characters and
\* matches the regex.
C15_Witness ==
    /\ NameValidated
    /\ tp.size = 4
    /\ raw = PyStr("disk")
    /\ re_match(tp.re, raw.s)
    /\ Rejected

\* C16: when a named validator rejects a raw value, the failure is an
\* InvalidArgumentError.
C16_RejectsWithInvalidArgument ==
    (Validated /\ tp \in NamedDescs /\ ~res.out.ok) => res.out.err.kind = IAE

\* namedEnum validated a string that int() rejects with ValueError.
EnumOfText ==
    /\ Validated
    /\ tp.k = "namedEnum"
    /\ raw.t = "str"
    /\ ~py_int(raw).ok
    /\ py_int(raw).err.kind = "ValueError"

\* C28: namedEnum applied to a value that int() rejects with ValueError
\* fails with InvalidArgumentError and the message "Invalid <argName>. Must
\* be an integer", and with no other exception.
C28_EnumNotAnInteger ==
    EnumOfText =>
        /\ ~res.out.ok
        /\ res.out.err.kind = IAE
        /\ res.out.err.message = "Invalid " \o tp.name \o ". Must be an integer"

\* The entries of the raw map kv under the fields cls declares.
DeclaredOnly(cls, kv) ==
    LET known(e) == \E a \in AttrNames(cls) : e.k = PyStr(a)
    IN  SelectSeq(kv, known)

\* The constructor was given a raw map.
MadeFromMap == made # Idle /\ made.json.t = "dict"

\* C29: the keys of the raw map that the record type does not declare are
\* ignored: construction ends as it ends on the raw map without them, an
\* instance has the declared fields and no other, reading the undeclared
\* name fails with AttributeError, and to_json() has the declared names only.
C29_UndeclaredIgnored ==
    MadeFromMap =>
        /\ made.out = JsonObjectImpl_new(made.cls,
                          PyDict(DeclaredOnly(made.cls, made.json.kv)), made.kwargs, 1)
        /\ obj # PyNone =>
              /\ DOMAIN obj.a = AttrNames(made.cls)
              /\ \A n \in 1 .. Len(made.json.kv) :
                    made.json.kv[n].k.s \notin AttrNames(made.cls) =>
                        /\ ~py_getattr(obj, made.json.kv[n].k.s).ok
                        /\ py_getattr(obj, made.json.kv[n].k.s).err.kind = "AttributeError"
              /\ \A n \in 1 .. Len(to_json(obj).kv) :
                    to_json(obj).kv[n].k.s \in AttrNames(made.cls)

\* A raw map with an undeclared key and every declared field valid made an
\* instance.
C29_Witness ==
    /\ MadeFromMap
    /\ made.cls = "TrivialClass"
    /\ DictHas(made.json.kv, PyStr("newer_field"))
    /\ DictHas(made.json.kv, PyStr("flags"))
    /\ made.kwargs = <<>>
    /\ made.out.ok
    /\ obj = made.out.val

\* What a field or entry whose validation failed with error e reads as: the
\* partial of an InvalidArgumentError, None for every other error.
Salvaged(e) == IF e.kind = IAE THEN e.partial ELSE PyNone

\* The map a map validation is stated to build from the entries kv: an
\* entry whose key fails is left out, an entry whose value fails without a
\* partial maps to None, every other entry maps to its validated value. When
\* partials is TRUE an entry whose value fails maps to what was salvaged.
RECURSIVE EntriesKept(_, _, _)
EntriesKept(kv, d, partials) ==
    IF kv = <<>> THEN d
    ELSE IF ~handleVal(tp.key, Head(kv).k).ok THEN EntriesKept(Tail(kv), d, partials)
    ELSE EntriesKept(Tail(kv),
            DictPut(d, handleVal(tp.key, Head(kv).k).val,
                    IF handleVal(tp.val, Head(kv).v).ok
                    THEN handleVal(tp.val, Head(kv).v).val
                    ELSE IF partials THEN Salvaged(handleVal(tp.val, Head(kv).v).err)
                    ELSE PyNone),
            partials)

\* A map type was applied to a map.
MapValidated == res # Idle /\ res.op = "handleVal" /\ tp.k = "dict" /\ raw.t = "dict"

\* Some key, or some value of an entry whose key validates, fails.
EntryFails ==
    \E n \in 1 .. Len(raw.kv) :
        \/ ~handleVal(tp.key, raw.kv[n].k).ok
        \/ ~handleVal(tp.val, raw.kv[n].v).ok

\* The result of a map validation is the map d: returned when nothing
\* failed, the partial of the InvalidArgumentError raised otherwise.
MapResult(d) ==
    IF EntryFails
    THEN ~res.out.ok /\ res.out.err.kind = IAE /\ res.out.err.partial = PyDict(d)
    ELSE res.out = Ret(PyDict(d))

Accepting == {n \in 1 .. Len(tp.types) : handleVal(tp.types[n], raw).ok}

\* C11: either tries its components in declaration order and returns what
\* the first one that succeeds returns, calling no later component; when no
\* component succeeds it raises the no-match InvalidArgumentError, whose
\* partial is None.
C11_EitherFirst ==
    (res # Idle /\ res.op = "handleVal" /\ tp.k = "either") =>
        IF Accepting = {}
        THEN /\ res.out = error("The value does not match any type", PyNone)
             /\ eitherLoop(tp.types, raw, 0).tried = Len(tp.types)
        ELSE \E n \in Accepting :
                /\ \A m \in Accepting : n <= m
                /\ res.out = handleVal(tp.types[n], raw)
                /\ eitherLoop(tp.types, raw, 0).tried = n

\* Either([int], Replication) on [1, "x", 1]: the list fails with the
\* partial [1, 1], the range fails on a list, and the error raised is the
\* no-match one, without a partial.
C11_Witness ==
    /\ res # Idle
    /\ res.op = "handleVal"
    /\ tp = either(<<List, VolumeReplication>>)
    /\ raw = PyList(<<PyInt(1), PyStr("x"), PyInt(1)>>)
    /\ handleVal(List, raw).err.partial = PyList(<<PyInt(1), PyInt(1)>>)
    /\ Accepting = {}
    /\ ~res.out.ok
    /\ res.out.err.kind = IAE
    /\ res.out.err.partial = PyNone

-----------------------------------------------------------------------------
(* A record instance: constructed from a raw map, handed to a constructor  *)
(* again, serialized and decoded.                                          *)

Absent == [absent |-> TRUE]

\* The raw values tried for each field, in the order of __jsonAttrDefs__.
RawChoices(cls) ==
    CASE cls = "TrivialClass" ->
            << {Absent, PyInt(3), PyStr("x"), PyStr("2")},
               {Absent, PyStr("whee")},
               {Absent, PyNone, PyInt(5), PyList(<<PyInt(0), PyInt(1)>>),
                PyList(<<PyInt(1), PyStr("x"), PyInt(2)>>)} >>
      [] cls = "Group" ->
            << {Absent, PyInt(1), PyStr("x")},
               {Absent, PyList(<<PyInt(1), PyInt(2)>>),
                PyList(<<PyInt(2), PyInt(3), PyInt(1)>>),
                PyList(<<PyInt(1), PyInt(4)>>)},
               {Absent, PyNone,
                PyDict(<<[k |-> PyInt(1), v |-> PyInt(2)]>>),
                PyDict(<<[k |-> PyInt(4), v |-> PyInt(1)], [k |-> PyStr("2"), v |-> PyInt(3)]>>),
                PyDict(<<[k |-> PyInt(1), v |-> PyInt(4)]>>)} >>
      [] cls = "ObjectDesc" ->
            << {Absent, PyStr("hdd"), PyInt(1)},
               {Absent, PyInt(1), PyInt(5), PyStr("B")} >>

\* The raw maps over the fields defs: every field absent or with one of the
\* values of its choices.
RECURSIVE RawKvs(_, _)
RawKvs(defs, choices) ==
    IF defs = <<>> THEN {<<>>}
    ELSE { (IF c = Absent THEN <<>> ELSE <<[k |-> PyStr(Head(defs).attr), v |-> c]>>) \o rest :
             c \in Head(choices), rest \in RawKvs(Tail(defs), Tail(choices)) }

\* What a raw map holds besides the declared fields: nothing, or a member the
\* record type does not declare, as a newer server sends.
Undeclared == { <<>>, <<[k |-> PyStr("newer_field"), v |-> PyStr("junk")]>> }

RawMaps(cls) ==
    { PyDict(kv \o more) :
        kv \in RawKvs(jsonAttrDefs(cls), RawChoices(cls)), more \in Undeclared }

\* What the constructor is given: a raw map, None, or a value that is no map.
RawJson(cls) == RawMaps(cls) \cup {PyNone, PyInt(5)}

\* The keyword overrides tried.
KwArgs(cls) ==
    { <<>>, <<[k |-> PyStr("extra_field"), v |-> PyInt(1)]>> }
    \cup { <<[k |-> PyStr(jsonAttrDefs(cls)[1].attr), v |-> PyStr("2")]>> }

\* The orders a set of disks may be listed in.
SetOrders ==
    { q \in [1 .. 3 -> {PyInt(1), PyInt(2), PyInt(3)}] :
        \A m, n \in 1 .. 3 : m # n => q[m] # q[n] }

InitRec ==
    /\ obj = Idle
    /\ made = Idle
    /\ op = Idle
    /\ IdleCatch
    /\ IdleType
    /\ IdleApi
    /\ IdleDecl
    /\ IdleReq
    /\ IdleThreads

\* What the caller of a constructor holds afterwards: the instance, the
\* partial of an InvalidArgumentError, or nothing.
Held(out) ==
    IF out.ok THEN out.val
    ELSE IF out.err.kind = IAE THEN out.err.partial
    ELSE PyNone

\* obj = cls(json, **kwargs), or the partial of its failure.
New(cls, json, kwargs) ==
    /\ made = Idle
    /\ made' = [cls |-> cls, json |-> json, kwargs |-> kwargs,
                out |-> JsonObjectImpl_new(cls, json, kwargs, 1)]
    /\ obj' = Held(made'.out)
    /\ UNCHANGED <<op, catchVars, typeVars, apiVars, declVars, reqVars, threadVars>>

\* cls(obj, **kwargs): the constructor is given an instance.
Rewrap(cls, kwargs) ==
    /\ made # Idle
    /\ obj # PyNone
    /\ op' = [name |-> "rewrap", cls |-> cls, kwargs |-> kwargs, before |-> obj,
              out |-> JsonObjectImpl_new(cls, obj, kwargs, obj.id + 1)]
    /\ UNCHANGED <<obj, made, catchVars, typeVars, apiVars, declVars, reqVars, threadVars>>

\* type(obj)(loads(dumps(obj)))
RoundTrip(order) ==
    /\ made # Idle
    /\ obj # PyNone
    /\ op' = [name |-> "roundtrip", order |-> order, before |-> obj,
              out |-> JsonObjectImpl_new(obj.cls, loads(dumps(obj, order)), <<>>,
                                         obj.id + 1)]
    /\ UNCHANGED <<obj, made, catchVars, typeVars, apiVars, declVars, reqVars, threadVars>>

NextRec ==
    \/ \E cls \in Classes : \E json \in RawJson(cls) : \E kwargs \in KwArgs(cls) :
          New(cls, json, kwargs)
    \/ \E cls \in Classes : \E kwargs \in KwArgs(cls) : Rewrap(cls, kwargs)
    \/ \E order \in SetOrders : RoundTrip(order)

SpecRec == InitRec /\ [][NextRec]_vars

-----------------------------------------------------------------------------
(* Claims about record instances.                                          *)

\* The validation of the n-th declared field in the constructor call made.
MadeField(n) ==
    fieldOutcome(jsonAttrDefs(made.cls)[n], dictUpdate(made.json.kv, made.kwargs))

\* The indexes of the declared fields of the call made.
MadeFields == 1 .. Len(jsonAttrDefs(made.cls))

\* The call made was given a raw map, and exactly one declared field fails.
OneFieldFails ==
    /\ made # Idle
    /\ made.json.t = "dict"
    /\ Cardinality({n \in MadeFields : ~MadeField(n).ok}) = 1

\* The call made raised InvalidArgumentError with a partial instance of the
\* class that has exactly the declared fields.
MadePartial ==
    /\ ~made.out.ok
    /\ made.out.err.kind = IAE
    /\ IsInstance(made.out.err.partial, made.cls)
    /\ DOMAIN made.out.err.partial.a = AttrNames(made.cls)

\* C1, as stated: when exactly one declared field of a raw map fails, the
\* constructor raises InvalidArgumentError whose partial has every other
\* field at its validated value or default, and the failing field None.
C1_FailingFieldNone ==
    OneFieldFails =>
        /\ MadePartial
        /\ \A n \in MadeFields :
              made.out.err.partial.a[jsonAttrDefs(made.cls)[n].attr]
                = IF MadeField(n).ok THEN MadeField(n).val ELSE PyNone

\* What a field that failed with error e reads as: the partial of an
\* InvalidArgumentError, None for every other error.
FailedReads(e) == IF e.kind = IAE THEN e.partial ELSE PyNone

\* C1, amended: when exactly one declared field of a raw map fails, the
\* constructor raises InvalidArgumentError whose partial has every other
\* field at its validated value or default; the failing field reads as the
\* partial its own validation salvaged, and as None when it salvaged none.
C1_FailingFieldPartial ==
    OneFieldFails =>
        /\ MadePartial
        /\ \A n \in MadeFields :
              made.out.err.partial.a[jsonAttrDefs(made.cls)[n].attr]
                = IF MadeField(n).ok THEN MadeField(n).val
                  ELSE FailedReads(MadeField(n).err)

\* A TrivialClass built from number 3, name "whee" and flags [1, "x", 2]:
\* flags fails alone, and the partial reads number 3, name "whee", flags [1, 2].
C1_Witness ==
    /\ OneFieldFails
    /\ made.cls = "TrivialClass"
    /\ DictHas(made.json.kv, PyStr("flags"))
    /\ DictGet(made.json.kv, PyStr("flags")) = PyList(<<PyInt(1), PyStr("x"), PyInt(2)>>)
    /\ MadePartial
    /\ made.out.err.partial.a["number"] = PyInt(3)
    /\ made.out.err.partial.a["name"] = PyStr("whee")
    /\ made.out.err.partial.a["flags"] = PyList(<<PyInt(1), PyInt(2)>>)

\* C9: R(r) for an instance r of R returns r itself, the same object with
\* no field changed, and R(r, **kwargs) with any override fails and leaves
\* r as it was.
C9_RewrapIdentity ==
    (op # Idle /\ op.name = "rewrap" /\ IsInstance(op.before, op.cls)) =>
        /\ obj = op.before
        /\ op.kwargs = <<>> => op.out = Ret(op.before)
        /\ op.kwargs # <<>> => ~op.out.ok /\ op.out.err.kind = "AssertionError"

\* A Group with disks {1, 2} handed to Group again comes back as itself.
C9_Witness ==
    /\ op # Idle
    /\ op.name = "rewrap"
    /\ op.cls = "Group"
    /\ op.kwargs = <<>>
    /\ made.out.ok
    /\ IsInstance(op.before, "Group")
    /\ op.before.a["disks"] = PySet({PyInt(1), PyInt(2)})
    /\ op.out.ok
    /\ op.out.val.id = op.before.id
    /\ op.out.val.a = op.before.a

\* The record that was serialized and decoded had been constructed
\* successfully.
RoundTripped == op # Idle /\ op.name = "roundtrip" /\ made.out.ok

\* Decoding gave an instance of the same type, equal field by field.
RoundTripEqual ==
    /\ op.out.ok
    /\ op.out.val.cls = op.before.cls
    /\ op.out.val.a = op.before.a

RECURSIVE Kinds(_)
Kinds(T) ==
    {T.k} \cup (CASE T.k \in {"list", "set", "maybe", "internal"} -> Kinds(T.sub)
                  [] T.k = "dict" -> Kinds(T.key) \cup Kinds(T.val)
                  [] OTHER -> {})

\* No field of r is built from a named enum, and no internal field of r is
\* None.
PlainFields(r) ==
    \A n \in 1 .. Len(jsonAttrDefs(r.cls)) :
        /\ "namedEnum" \notin Kinds(jsonAttrDefs(r.cls)[n].def)
        /\ jsonAttrDefs(r.cls)[n].def.k = "internal"
              => r.a[jsonAttrDefs(r.cls)[n].attr] # PyNone

-----------------------------------------------------------------------------
(* One invocation of a compiled API method, statement by statement.        *)

\* The methods declared: a GET with one argument, a POST with an argument
\* and a body as in the unit test, a GET whose template names its arguments
\* in another order, and a GET without arguments that returns a list.
ApiMethods ==
    { GET(FALSE, <<Lit("Query/"), Field("name")>>,
          <<API_ARG("name", spTypeStr)>>, NoJson, spTypeInt),
      POST(TRUE, <<Lit("AnotherQuery/"), Field("id")>>,
           <<API_ARG("id", spTypeInt)>>, Dict, VolumeReplication),
      GET(FALSE, <<Lit("Lookup/"), Field("name"), Lit("/"), Field("id")>>,
          <<API_ARG("id", VolumeReplication), API_ARG("name", spTypeStr)>>,
          NoJson, spList(VolumeReplication)),
      GET(TRUE, <<Lit("DisksList")>>, <<>>, NoJson, spList(VolumeReplication)) }

\* The raw values a caller passes for an argument of type T.
ArgRaw(T) ==
    CASE T = spTypeStr -> {PyStr("hdd"), PyInt(4)}
      [] T = spTypeInt -> {PyInt(42), PyStr("2"), PyStr("x")}
      [] T = VolumeReplication -> {PyInt(1), PyStr("2"), PyInt(4), PyStr("x")}
      [] T = Dict ->
            { PyDict(<<[k |-> PyInt(1), v |-> PyInt(2)]>>),
              PyDict(<<[k |-> PyStr("2"), v |-> PyInt(1)], [k |-> PyInt(3), v |-> PyInt(3)]>>),
              PyDict(<<[k |-> PyInt(1), v |-> PyInt(4)], [k |-> PyInt(2), v |-> PyInt(3)]>>),
              PyInt(5) }

\* The argument lists a caller passes for the arguments as.
RECURSIVE ArgLists(_)
ArgLists(as) ==
    IF as = <<>> THEN {<<>>}
    ELSE { <<v>> \o rest : v \in ArgRaw(Head(as).type), rest \in ArgLists(Tail(as)) }

ClusterNames == {PyNone, PyStr("backup")}

\* What the transport does with a call: it returns the data of a response,
\* or raises.
Responses ==
    { Ret(PyInt(616)), Ret(PyInt(2)), Ret(PyStr("x")),
      Ret(PyList(<<PyInt(1), PyInt(2)>>)),
      Ret(PyList(<<PyInt(1), PyInt(4), PyInt(2)>>)),
      Ret(PyList(<<PyStr("x")>>)),
      Raise(Exception("ApiError", "500: internal error")),
      Raise(InvalidArgumentError("transport", PyInt(42))) }

InitApi ==
    /\ call = [pc |-> "idle"]
    /\ calls = <<>>
    /\ IdleCatch
    /\ IdleType
    /\ IdleRec
    /\ IdleDecl
    /\ IdleReq
    /\ IdleThreads

\* func(api, *args, clusterName=clusterName)
Invoke(m, args, clusterName) ==
    /\ call.pc = "idle"
    /\ call' = Frame(m, args, clusterName)
    /\ UNCHANGED <<calls, catchVars, typeVars, recVars, declVars, reqVars, threadVars>>

\* arg = _validate_arg(arg), for the next argument
ValidateArg ==
    /\ call.pc = "validate"
    /\ Len(call.validated) < Len(call.args)
    /\ call' = validated(call, handleVal(compileArgs(call.m)[Len(call.validated) + 1].type,
                                         call.args[Len(call.validated) + 1]))
    /\ UNCHANGED <<calls, catchVars, typeVars, recVars, declVars, reqVars, threadVars>>

\* query = "...".format(...)
FormatQuery ==
    /\ call.pc = "validate"
    /\ Len(call.validated) = Len(call.args)
    /\ call' = formatted(call, compileQuery(call.m, call.validated))
    /\ UNCHANGED <<calls, catchVars, typeVars, recVars, declVars, reqVars, threadVars>>

\* res = self(method, multiCluster, query, json, clusterName=clusterName)
Transport(resp) ==
    /\ call.pc = "transport"
    /\ calls' = Append(calls, transportCall(call))
    /\ call' = responded(call, resp)
    /\ UNCHANGED <<catchVars, typeVars, recVars, declVars, reqVars, threadVars>>

\* return returns(res), or the partial of its InvalidArgumentError
Decode ==
    /\ call.pc = "decode"
    /\ call' = [call EXCEPT !.pc = "done",
                            !.ret = decodeReturn(handleVal(call.m.returns, call.resp.val))]
    /\ UNCHANGED <<calls, catchVars, typeVars, recVars, declVars, reqVars, threadVars>>

NextApi ==
    \/ \E m \in ApiMethods : \E args \in ArgLists(compileArgs(m)) :
          \E clusterName \in ClusterNames : Invoke(m, args, clusterName)
    \/ ValidateArg
    \/ FormatQuery
    \/ \E resp \in Responses : Transport(resp)
    \/ Decode

SpecApi == InitApi /\ [][NextApi]_vars

-----------------------------------------------------------------------------
(* Claims about compiled API methods.                                      *)

Invoked == call # Idle /\ call.pc # "idle"

\* The validation of the n-th argument of the invocation, the body last.
ArgOutcome(n) == handleVal(compileArgs(call.m)[n].type, call.args[n])

\* The arguments of the invocation that fail validation.
BadArgs == {n \in 1 .. Len(call.args) : ~ArgOutcome(n).ok}

\* C3: the transport is called only after every positional argument and
\* the body validated successfully; when a validation fails, its error is
\* what the caller gets, no later argument is validated, and the transport
\* is not called.
C3_ValidateBeforeTransport ==
    Invoked =>
        /\ calls # <<>> => BadArgs = {}
        /\ (call.pc = "done" /\ BadArgs # {}) =>
              /\ calls = <<>>
              /\ \E n \in BadArgs :
                    /\ \A m \in BadArgs : n <= m
                    /\ call.ret = ArgOutcome(n)
                    /\ Len(call.validated) = n - 1

\* AnotherQuery with id 42 and a body {1: 4, 2: 3}, whose value 4 is out of
\* range: the InvalidArgumentError of the body is raised, no transport call.
C3_Witness ==
    /\ Invoked
    /\ call.pc = "done"
    /\ call.m.method = "POST"
    /\ call.args = <<PyInt(42), PyDict(<<[k |-> PyInt(1), v |-> PyInt(4)],
                                         [k |-> PyInt(2), v |-> PyInt(3)]>>)>>
    /\ BadArgs = {2}
    /\ call.validated = <<PyInt(42)>>
    /\ ~call.ret.ok
    /\ call.ret.err.kind = IAE
    /\ calls = <<>>

\* The transport has been called and the function is over.
Responded == Invoked /\ call.pc = "done" /\ call.resp # Pending

\* C4: a response whose decoding raises InvalidArgumentError with a partial
\* makes the method return the partial; every other decoding error is
\* raised; an error raised by the transport is raised unchanged.
C4_DecodePartial ==
    Responded =>
        /\ ~call.resp.ok => call.ret = call.resp
        /\ (call.resp.ok /\ ~handleVal(call.m.returns, call.resp.val).ok) =>
              IF /\ handleVal(call.m.returns, call.resp.val).err.kind = IAE
                 /\ handleVal(call.m.returns, call.resp.val).err.partial # PyNone
              THEN call.ret = Ret(handleVal(call.m.returns, call.resp.val).err.partial)
              ELSE call.ret = handleVal(call.m.returns, call.resp.val)

\* DisksList answered with [1, 4, 2]: the method returns [1, 2].
C4_Witness ==
    /\ Responded
    /\ call.m.query = <<Lit("DisksList")>>
    /\ call.resp = Ret(PyList(<<PyInt(1), PyInt(4), PyInt(2)>>))
    /\ ~handleVal(call.m.returns, call.resp.val).ok
    /\ call.ret = Ret(PyList(<<PyInt(1), PyInt(2)>>))

\* C5: with valid arguments the transport is called exactly once, with the
\* verb, the multiCluster flag, the path with the validated arguments in
\* their places, the validated body or None, and the caller's clusterName;
\* the method returns the response decoded through the return type.
C5_OneTransportCall ==
    (Invoked /\ BadArgs = {}) =>
        /\ Len(calls) = IF call.pc \in {"validate", "transport"} THEN 0 ELSE 1
        /\ calls # <<>> =>
              calls[1] = [method |-> call.m.method,
                          multiCluster |-> call.m.multiCluster,
                          query |-> compileQuery(call.m,
                                        [n \in 1 .. Len(call.args) |-> ArgOutcome(n).val]).val,
                          json |-> IF call.m.json = NoJson THEN PyNone
                                   ELSE ArgOutcome(Len(call.args)).val,
                          clusterName |-> call.clusterName]
        /\ (call.pc = "done" /\ call.resp.ok
               /\ handleVal(call.m.returns, call.resp.val).ok) =>
              call.ret = handleVal(call.m.returns, call.resp.val)

\* AnotherQuery with id "2", body {"2": 1, 3: 3} and clusterName "backup",
\* answered with 2: one POST of AnotherQuery/2 with body {2: 1, 3: 3} to
\* backup, and 2 is returned.
C5_Witness ==
    /\ Invoked
    /\ call.pc = "done"
    /\ call.args = <<PyStr("2"), PyDict(<<[k |-> PyStr("2"), v |-> PyInt(1)],
                                          [k |-> PyInt(3), v |-> PyInt(3)]>>)>>
    /\ calls = << [method |-> "POST", multiCluster |-> TRUE, query |-> "AnotherQuery/2",
                   json |-> PyDict(<<[k |-> PyInt(2), v |-> PyInt(1)],
                                     [k |-> PyInt(3), v |-> PyInt(3)]>>),
                   clusterName |-> PyStr("backup")] >>
    /\ call.resp = Ret(PyInt(2))
    /\ call.ret = Ret(PyInt(2))

-----------------------------------------------------------------------------
(* A record instance whose fields are read and assigned.                   *)

\* The number of assignments of a behaviour.
MaxSets == 2

\* The names read and assigned: the fields of every class, and one that no
\* class declares.
AttrTried == UNION {AttrNames(cls) : cls \in Classes} \cup {"extra_field"}

\* The values assigned.
SetValues ==
    {PyInt(4), PyStr("x"), PyNone, PyList(<<PyInt(1), PyStr("x"), PyInt(2)>>)}

\* The assignments made so far.
SetCount == IF op = Idle THEN 0 ELSE op.n

\* obj.attr
GetAttr(attr) ==
    /\ made # Idle
    /\ obj.t = "obj"
    /\ op' = [name |-> "get", attr |-> attr, before |-> obj,
              out |-> py_getattr(obj, attr), n |-> SetCount]
    /\ UNCHANGED <<obj, made, catchVars, typeVars, apiVars, declVars, reqVars, threadVars>>

\* obj.attr = value
SetAttr(attr, value) ==
    /\ made # Idle
    /\ obj.t = "obj"
    /\ SetCount < MaxSets
    /\ obj' = py_setattr(obj, attr, value).obj
    /\ op' = [name |-> "set", attr |-> attr, value |-> value, before |-> obj,
              out |-> py_setattr(obj, attr, value).out, n |-> SetCount + 1]
    /\ UNCHANGED <<made, catchVars, typeVars, apiVars, declVars, reqVars, threadVars>>

NextAttr ==
    \/ \E cls \in Classes : \E json \in RawJson(cls) : New(cls, json, <<>>)
    \/ \E attr \in AttrTried : GetAttr(attr)
    \/ \E attr \in AttrTried : \E value \in SetValues : SetAttr(attr, value)

SpecAttr == InitRec /\ [][NextAttr]_vars

-----------------------------------------------------------------------------
(* Claims about reading and assigning the fields of an instance.           *)

\* A read or an assignment was made.
Accessed == op # Idle /\ op.name \in {"get", "set"}

\* The instance held stores exactly the declared fields; the read or the
\* assignment of a name that is not declared raised AttributeError and
\* left the instance as it was, and a read changed nothing.
FieldsDeclared ==
    /\ (made # Idle /\ obj.t = "obj") => DOMAIN obj.a = AttrNames(obj.cls)
    /\ (Accessed /\ op.attr \notin AttrNames(op.before.cls)) =>
          /\ ~op.out.ok
          /\ op.out.err.kind = "AttributeError"
          /\ obj = op.before
    /\ (Accessed /\ op.name = "get") => obj = op.before

\* The n-th declared field failed when the instance was constructed from a
\* raw map, and it is read before any assignment.
FailedFieldRead(n) ==
    /\ Accessed
    /\ op.name = "get"
    /\ op.n = 0
    /\ made.json.t = "dict"
    /\ jsonAttrDefs(made.cls)[n].attr = op.attr
    /\ ~MadeField(n).ok

\* C17, as stated: the stored field names are the declared ones, an
\* undeclared name is neither read nor assigned (AttributeError, nothing
\* changes), and a declared field whose validation failed reads None.
C17_FailedFieldNone ==
    /\ FieldsDeclared
    /\ made # Idle =>
          \A n \in MadeFields : FailedFieldRead(n) => op.out = Ret(PyNone)

\* C17, amended: the stored field names are the declared ones, an undeclared
\* name is neither read nor assigned (AttributeError, nothing changes), and
\* a declared field whose validation failed reads as the partial its
\* validation salvaged, and as None when it salvaged none.
C17_FailedFieldPartial ==
    /\ FieldsDeclared
    /\ made # Idle =>
          \A n \in MadeFields : FailedFieldRead(n) => op.out = Ret(FailedReads(MadeField(n).err))

\* The partial of TrivialClass with flags [1, "x", 2]: flags reads [1, 2].
C17_Witness ==
    /\ made # Idle
    /\ made.cls = "TrivialClass"
    /\ FailedFieldRead(3)
    /\ FieldsDeclared
    /\ op.out = Ret(PyList(<<PyInt(1), PyInt(2)>>))

\* A declared field was assigned.
FieldAssigned ==
    /\ Accessed
    /\ op.name = "set"
    /\ op.attr \in AttrNames(op.before.cls)

\* What the constructor validates for the field assigned, given the value
\* assigned as the raw value of that field.
AsConstructed ==
    fieldOutcome([attr |-> op.attr, def |-> attrDef(op.before.cls, op.attr)],
                 <<[k |-> PyStr(op.attr), v |-> op.value]>>)

\* C18: the assignment of a declared field validates the value as the
\* constructor does and stores the validated value; when the validation
\* fails the assignment raises its error and the field keeps the value it
\* had, and no other field changes either way.
C18_SetValidates ==
    FieldAssigned =>
        /\ AsConstructed.ok =>
              /\ op.out.ok
              /\ obj.a[op.attr] = AsConstructed.val
        /\ ~AsConstructed.ok =>
              /\ op.out = AsConstructed
              /\ obj.a[op.attr] = op.before.a[op.attr]
        /\ \A other \in AttrNames(op.before.cls) \ {op.attr} :
              obj.a[other] = op.before.a[other]
        /\ obj.cls = op.before.cls
        /\ obj.id = op.before.id

\* flags of a TrivialClass is [0, 1]; flags = [1, "x", 2] raises
\* InvalidArgumentError with the partial [1, 2], and flags is still [0, 1].
C18_Witness ==
    /\ FieldAssigned
    /\ op.before.cls = "TrivialClass"
    /\ op.attr = "flags"
    /\ op.value = PyList(<<PyInt(1), PyStr("x"), PyInt(2)>>)
    /\ op.before.a["flags"] = PyList(<<PyInt(0), PyInt(1)>>)
    /\ ~op.out.ok
    /\ op.out.err.kind = IAE
    /\ op.out.err.partial = PyList(<<PyInt(1), PyInt(2)>>)
    /\ obj.a["flags"] = PyList(<<PyInt(0), PyInt(1)>>)

-----------------------------------------------------------------------------
(* Declarations: a GET method or an either type is declared, then used.    *)

\* The keywords a GET method is declared with.
GetKwargs ==
    { <<>>,
      <<[k |-> PyStr("returns"), v |-> spTypeInt]>>,
      <<[k |-> PyStr("json"), v |-> Dict]>>,
      <<[k |-> PyStr("json"), v |-> Dict], [k |-> PyStr("returns"), v |-> spTypeInt]>>,
      <<[k |-> PyStr("multiCluster"), v |-> PyBool(TRUE)],
        [k |-> PyStr("returns"), v |-> spList(VolumeReplication)]>> }

\* The alternatives an either type is declared with.
EitherTypes == { <<>>, <<spTypeInt>>, <<VolumeReplication, spTypeStr>> }

InitDecl ==
    /\ decl = Idle
    /\ call = [pc |-> "idle"]
    /\ calls = <<>>
    /\ IdleType
    /\ IdleCatch
    /\ IdleRec
    /\ IdleReq
    /\ IdleThreads

\* A method was declared, and the declaration did not fail.
MethodDeclared == decl # Idle /\ decl.what = "GET" /\ decl.out.ok

\* A type was declared, and the declaration did not fail.
TypeDeclared == decl # Idle /\ decl.what = "either" /\ decl.out.ok

\* Api.name = GET(query, **kwargs)
DeclareGET(query, kwargs) ==
    /\ decl = Idle
    /\ decl' = [what |-> "GET", kwargs |-> kwargs,
                out |-> declareGET(query, <<>>, kwargs)]
    /\ UNCHANGED <<apiVars, catchVars, typeVars, recVars, reqVars, threadVars>>

\* Name = either(*types)
DeclareEither(types) ==
    /\ decl = Idle
    /\ decl' = [what |-> "either", types |-> types, out |-> Ret(either(types))]
    /\ UNCHANGED <<apiVars, catchVars, typeVars, recVars, reqVars, threadVars>>

\* The argument lists the method declared is called with.
DeclaredArgLists ==
    IF MethodDeclared THEN ArgLists(compileArgs(decl.out.val)) ELSE {}

\* api.name(*args, clusterName=clusterName), for the method declared
InvokeDeclared(args, clusterName) ==
    /\ MethodDeclared
    /\ Invoke(decl.out.val, args, clusterName)

\* Name.handleVal(v), for the type declared
ValidateDeclared(v) ==
    /\ TypeDeclared
    /\ res = Idle
    /\ tp' = decl.out.val
    /\ raw' = v
    /\ res' = [op |-> "handleVal", out |-> handleVal(decl.out.val, v)]
    /\ UNCHANGED <<declVars, apiVars, catchVars, recVars, reqVars, threadVars>>

NextDecl ==
    \/ \E kwargs \in GetKwargs : DeclareGET(<<Lit("AllPeersActiveRequests")>>, kwargs)
    \/ \E types \in EitherTypes : DeclareEither(types)
    \/ \E args \in DeclaredArgLists : \E clusterName \in ClusterNames :
          InvokeDeclared(args, clusterName)
    \/ ValidateArg
    \/ FormatQuery
    \/ \E resp \in Responses : Transport(resp)
    \/ Decode
    \/ \E v \in ScalarRaw : ValidateDeclared(v)

SpecDecl == InitDecl /\ [][NextDecl]_vars

-----------------------------------------------------------------------------
(* Claims about declarations.                                              *)

\* The declaration made is one of the two the claim calls malformed: a GET
\* method with a JSON body, or an either type without alternatives.
Malformed ==
    /\ decl # Idle
    /\ \/ decl.what = "GET" /\ DictHas(decl.kwargs, PyStr("json"))
       \/ decl.what = "either" /\ decl.types = <<>>

\* C19, as stated: the declaration of a GET method with a JSON body, and of
\* an either type with zero alternatives, fails at once instead of making a
\* method or a type descriptor.
C19_MalformedRejected == Malformed => ~decl.out.ok

\* The call of the method declared has called the transport.
Transported == call.pc \in {"decode", "done"} /\ calls # <<>>

\* C19, amended: a GET method is rejected at declaration exactly when it has
\* no return type, with AssertionError; declared with a JSON body it is a
\* method that takes the body as its last argument, validates it and hands
\* the validated body to the transport. either() with zero alternatives is
\* a type descriptor, and it rejects every value with InvalidArgumentError
\* when it validates.
C19_DeclarationAccepted ==
    /\ (decl # Idle /\ decl.what = "GET") =>
          /\ decl.out.ok <=> DictHas(decl.kwargs, PyStr("returns"))
          /\ ~decl.out.ok => decl.out.err.kind = "AssertionError"
    /\ (MethodDeclared /\ DictHas(decl.kwargs, PyStr("json"))) =>
          /\ decl.out.val.json = DictGet(decl.kwargs, PyStr("json"))
          /\ Transported =>
                /\ Len(call.args) = 1
                /\ handleVal(decl.out.val.json, call.args[1]).ok
                /\ calls[1].method = "GET"
                /\ calls[1].json = handleVal(decl.out.val.json, call.args[1]).val
    /\ (decl # Idle /\ decl.what = "either") =>
          /\ decl.out.ok
          /\ decl.out.val.name = "Either(" \o tpNames(decl.types) \o ")"
          /\ (decl.types = <<>> /\ res # Idle) =>
                /\ ~res.out.ok
                /\ res.out.err.kind = IAE
                /\ res.out.err.partial = PyNone

\* GET('AllPeersActiveRequests', json={int: int}, returns=int) called with
\* {1: 2}: the transport gets the body {1: 2}, and the call returns 616.
C19_Witness ==
    /\ MethodDeclared
    /\ Malformed
    /\ Transported
    /\ call.pc = "done"
    /\ calls[1].json = PyDict(<<[k |-> PyInt(1), v |-> PyInt(2)]>>)
    /\ call.ret = Ret(PyInt(616))

-----------------------------------------------------------------------------
(* One request of Api.__call__: the loop that retries transient errors.    *)

\* The largest transientRetries an Api is made with.
MaxRetries == 2

\* The server answered: the status and the JSON text of the response.
Answer(status, jres) == [kind |-> "response", status |-> status, jres |-> jres]

\* The connection raised.
Failure(err) == [kind |-> "raise", err |-> err]

\* What an attempt may meet: an answer with data, answers with an error that
\* is flagged transient, is flagged not transient or has no flag, an
\* answer with neither, the errors of the socket and of the HTTP protocol,
\* and text that is no JSON.
Attempts ==
    { Answer(200, [data |-> PyInt(616)]),
      Answer(200, [error |-> [transient |-> TRUE]]),
      Answer(500, [error |-> [transient |-> TRUE]]),
      Answer(500, [error |-> [transient |-> FALSE]]),
      Answer(404, [error |-> [name |-> "notFound"]]),
      Answer(500, [data |-> PyInt(616)]),
      Failure(SockError("ECONNREFUSED")),
      Failure(SockError("ECONNRESET")),
      Failure(SockError("EBADF")),
      Failure(HTTPException),
      Failure(Exception("ValueError", "No JSON object could be decoded")) }

\* The Api objects: transientRetries and multiCluster as constructed.
Apis ==
    {Api(transientRetries, multiCluster) :
        transientRetries \in 0 .. MaxRetries, multiCluster \in BOOLEAN}

\* The calls the compiled methods make: disksList, iSCSISessionsInfo with a
\* query, volumeCreate, here and in the cluster "backup".
TransportCalls ==
    {CallArgs("GET", FALSE, "DisksList", PyNone, clusterName) :
        clusterName \in ClusterNames}
    \cup {CallArgs("GET", TRUE, "VolumesList", PyNone, clusterName) :
        clusterName \in ClusterNames}
    \cup {CallArgs("GET", FALSE, "iSCSISessionsInfo",
                   PyDict(<<[k |-> PyStr("controllerIds"), v |-> PyList(<<PyInt(4)>>)]>>),
                   PyNone),
          CallArgs("POST", TRUE, "VolumeCreate",
                   PyDict(<<[k |-> PyStr("name"), v |-> PyStr("x")],
                            [k |-> PyStr("size"), v |-> PyNone]>>),
                   PyStr("backup"))}

InitCall ==
    /\ req \in {Request(self, args, <<>>) : self \in Apis, args \in TransportCalls}
    /\ IdleCatch
    /\ IdleType
    /\ IdleRec
    /\ IdleApi
    /\ IdleDecl
    /\ IdleThreads

\* One turn of the loop: connect, request, read the response, close.
Attempt(a) ==
    /\ req.pc = "try"
    /\ req' = attempt(req, a)
    /\ UNCHANGED <<catchVars, typeVars, recVars, apiVars, declVars, threadVars>>

\* time.sleep(retrySleep); retry += 1
Sleep ==
    /\ req.pc = "sleep"
    /\ req' = slept(req)
    /\ UNCHANGED <<catchVars, typeVars, recVars, apiVars, declVars, threadVars>>

NextCall ==
    \/ \E a \in Attempts : Attempt(a)
    \/ Sleep

\* The thread that runs __call__ keeps running, and time.sleep returns.
SpecCall == InitCall /\ [][NextCall]_vars /\ WF_vars(NextCall)

-----------------------------------------------------------------------------
(* Claims about the retry loop.                                            *)

\* The attempt met a transient error: ECONNREFUSED or ECONNRESET of the
\* socket, an exception of the HTTP protocol, or an API error that is
\* flagged transient.
Transient(a) ==
    \/ /\ a.kind = "raise"
       /\ a.err.kind = "socket.error"
       /\ a.err.errno \in {"ECONNREFUSED", "ECONNRESET"}
    \/ a.kind = "raise" /\ a.err.kind = "HTTPException"
    \/ /\ a.kind = "response"
       /\ "error" \in DOMAIN a.jres
       /\ "transient" \in DOMAIN a.jres.error
       /\ a.jres.error.transient

\* The attempt succeeded: the server answered OK with data and no error.
Succeeded(a) ==
    a.kind = "response" /\ a.status = 200 /\ DOMAIN a.jres = {"data"}

\* The error of an attempt that did not succeed.
ErrorOf(a) ==
    IF a.kind = "raise" THEN a.err
    ELSE IF "error" \in DOMAIN a.jres THEN ApiError(a.status, a.jres)
    ELSE KeyError("error")

\* The call has returned or raised.
Finished == req.pc = "done"

\* The last attempt made.
LastAttempt == req.attempts[Len(req.attempts)]

\* At most transientRetries + 1 attempts are made, and none after an attempt
\* that succeeded or met an error that is not transient; the call ends with
\* the data of the attempt that succeeded, with the error that is not
\* transient, or, after exactly transientRetries + 1 transient errors, with
\* the last of them.
RetryBounded ==
    /\ Len(req.attempts) <= req.transientRetries + 1
    /\ \A n \in 1 .. Len(req.attempts) - 1 : Transient(req.attempts[n])
    /\ ~Finished => \A n \in 1 .. Len(req.attempts) : Transient(req.attempts[n])
    /\ Finished =>
          /\ req.attempts # <<>>
          /\ Succeeded(LastAttempt) => req.ret = Ret(LastAttempt.jres.data)
          /\ ~Succeeded(LastAttempt) => req.ret = Raise(ErrorOf(LastAttempt))
          /\ Transient(LastAttempt) => Len(req.attempts) = req.transientRetries + 1

\* C20: Api.__call__ with transientRetries = N always terminates; N + 1
\* attempts that all meet a transient error end with the last error raised,
\* an error that is not transient is raised on its attempt, and the first
\* attempt that succeeds returns the data of the response.
C20_RetryTerminates == []RetryBounded /\ <>Finished

\* transientRetries = 2: connection refused, an HTTP exception, then an API
\* error flagged transient, which is raised after the third attempt.
C20_Witness ==
    /\ req # Idle
    /\ Finished
    /\ req.transientRetries = 2
    /\ req.attempts = << Failure(SockError("ECONNREFUSED")), Failure(HTTPException),
                         Answer(500, [error |-> [transient |-> TRUE]]) >>
    /\ req.slept = <<0, 1>>
    /\ req.ret = Raise(ApiError(500, [error |-> [transient |-> TRUE]]))

\* The last attempt was answered with a status that is not OK, or with a
\* body that has an error member.
ErrorAnswered ==
    /\ req # Idle
    /\ Finished
    /\ LastAttempt.kind = "response"
    /\ (LastAttempt.status # 200 \/ "error" \in DOMAIN LastAttempt.jres)

\* C21: when the response has a status that is not OK, or its body has an
\* error member, Api.__call__ raises ApiError with that status and that
\* body, and no other kind of exception.
C21_FailsWithApiError ==
    ErrorAnswered =>
        /\ ~req.ret.ok
        /\ req.ret.err.kind = "ApiError"
        /\ req.ret.err.status = LastAttempt.status
        /\ req.ret.err.json = LastAttempt.jres

-----------------------------------------------------------------------------
(* The documentation node of the type of an argument, and the function     *)
(* compile() makes for a method with that argument.                        *)

\* The types of the argument.
DocTypes ==
    { spTypeInt, spTypeStr, VolumeReplication, maybe(spTypeInt),
      maybe(VolumeReplication), internal(maybe(spTypeInt)),
      eitherOr(maybe(spTypeInt), PyStr("x")), spList(maybe(spTypeInt)) }

\* The documentation nodes an SpType of type T is made with: the one its
\* combinator builds, nodes with other names and texts, and none.
DocNodes(T) ==
    { spDoc(T), TypeDoc("Optional", ""), TypeDoc(T.name, "An argument."), NoDoc }

InitDoc ==
    /\ decl = Idle
    /\ call = [pc |-> "idle"]
    /\ IdleCatch
    /\ IdleType
    /\ IdleRec
    /\ calls = Idle
    /\ IdleReq
    /\ IdleThreads

\* Api.name = GET(query, _API_ARG('x', T)), the SpType made with the node doc
DeclareArg(T, doc) ==
    /\ decl = Idle
    /\ decl' = [what |-> "arg", type |-> T, spDoc |-> doc, out |-> defstr("x", doc)]
    /\ UNCHANGED <<apiVars, catchVars, typeVars, recVars, reqVars, threadVars>>

\* The method was compiled.
Compiled == decl # Idle /\ decl.what = "arg" /\ decl.out.ok

\* api.name(v)
CallWith(v) ==
    /\ Compiled
    /\ call.pc = "idle"
    /\ call' = [pc |-> "done", args |-> <<v>>, ret |-> handleVal(decl.type, v)]
    /\ UNCHANGED <<calls, declVars, catchVars, typeVars, recVars, reqVars, threadVars>>

\* api.name()
CallWithout ==
    /\ Compiled
    /\ call.pc = "idle"
    /\ call' = [pc |-> "done", args |-> <<>>,
                ret |-> calledWithout(decl.out.val, decl.type)]
    /\ UNCHANGED <<calls, declVars, catchVars, typeVars, recVars, reqVars, threadVars>>

NextDoc ==
    \/ \E T \in DocTypes : \E doc \in DocNodes(T) : DeclareArg(T, doc)
    \/ \E v \in ScalarRaw : CallWith(v)
    \/ CallWithout

SpecDoc == InitDoc /\ [][NextDoc]_vars

\* What the call made returns or raises when the type of the argument has
\* the node doc.
CallUnder(doc) ==
    IF ~defstr("x", doc).ok THEN defstr("x", doc)
    ELSE IF call.args = <<>> THEN calledWithout(defstr("x", doc).val, decl.type)
    ELSE handleVal(decl.type, call.args[1])

\* C22: what a compiled method accepts, validates and returns is the same
\* whatever the documentation node of the type of its argument holds, and
\* when there is none: which arguments have the default None, and what a
\* call returns or raises.
C22_DocsNeverAffectCalls ==
    (decl # Idle /\ decl.what = "arg") =>
        \A doc \in DocNodes(decl.type) :
            /\ defstr("x", doc) = decl.out
            /\ (Compiled /\ call.pc = "done") => CallUnder(doc) = call.ret

-----------------------------------------------------------------------------
(* Record types declared one after another, each a plain class or a        *)
(* subclass of a record type declared before.                              *)

\* The number of record types declared.
MaxClasses == 3

\* The fields a declaration names, with their types.
OwnDefs ==
    { <<>>,
      <<[k |-> "id", v |-> spTypeInt]>>,
      <<[k |-> "id", v |-> spTypeStr], [k |-> "ssd", v |-> maybe(spTypeInt)]>>,
      <<[k |-> "generationLeft", v |-> const(PyInt(-1))]>>,
      <<[k |-> "ssd", v |-> spTypeInt], [k |-> "id", v |-> VolumeReplication]>> }

InitClasses ==
    /\ decl = [what |-> "classes", reg |-> <<>>, before |-> <<>>]
    /\ IdleCatch
    /\ IdleType
    /\ IdleRec
    /\ IdleApi
    /\ IdleReq
    /\ IdleThreads

\* The __jsonAttrDefs__ the class decorated inherits: of the parent-th
\* record type declared, none for a plain class.
BaseOf(reg, parent) ==
    IF parent = 0 THEN NoBase ELSE RecordBase(reg[parent].attrDefs)

\* The record types after the declaration: the parent holds what the call
\* left in its mapping, and the new type comes last.
Registered(reg, parent, own, called) ==
    Append([n \in 1 .. Len(reg) |->
               IF n = parent THEN [reg[n] EXCEPT !.attrDefs = called.base] ELSE reg[n]],
           [parent |-> parent, own |-> own, attrDefs |-> called.attrDefs])

\* @JsonObject(**own) class Name(Parent)
Declare(own, parent) ==
    /\ Len(decl.reg) < MaxClasses
    /\ parent <= Len(decl.reg)
    /\ decl' = [what |-> "classes", before |-> decl.reg,
                reg |-> Registered(decl.reg, parent, own,
                                   JsonObject_call(own, BaseOf(decl.reg, parent)))]
    /\ UNCHANGED <<apiVars, catchVars, typeVars, recVars, reqVars, threadVars>>

NextClasses == \E own \in OwnDefs : \E parent \in 0 .. MaxClasses : Declare(own, parent)

SpecClasses == InitClasses /\ [][NextClasses]_vars

\* A mapping of field names to types, as a function.
AsMap(kv) == [name \in {kv[n].k : n \in 1 .. Len(kv)} |-> DictGet(kv, name)]

\* The field definitions of a parent overlaid with those of a child.
Overlaid(parentMap, childMap) ==
    [name \in DOMAIN parentMap \cup DOMAIN childMap |->
        IF name \in DOMAIN childMap THEN childMap[name] ELSE parentMap[name]]

\* The record type declared last.
Declared == decl.reg[Len(decl.reg)]

\* C23: a record type declared with a parent record type has the field
\* definitions of the parent overlaid with its own, its own winning on a
\* name both have; the field definitions of the parent, and of every type
\* declared before, are as they were.
C23_InheritOverlay ==
    (decl # Idle /\ decl.what = "classes" /\ decl.reg # <<>>) =>
        /\ Declared.parent # 0 =>
              AsMap(Declared.attrDefs)
                = Overlaid(AsMap(decl.before[Declared.parent].attrDefs),
                           AsMap(Declared.own))
        /\ Declared.parent = 0 => AsMap(Declared.attrDefs) = AsMap(Declared.own)
        /\ \A n \in 1 .. Len(decl.before) : decl.reg[n] = decl.before[n]

\* A base with id: int; a child with id: str and ssd; a grandchild of it
\* with generationLeft: the grandchild has the three fields, id a str.
C23_Witness ==
    /\ decl # Idle
    /\ decl.what = "classes"
    /\ Len(decl.reg) = 3
    /\ decl.reg[1].own = <<[k |-> "id", v |-> spTypeInt]>>
    /\ decl.reg[2].parent = 1
    /\ decl.reg[3].parent = 2
    /\ AsMap(decl.reg[3].attrDefs)
         = [id |-> spTypeStr, ssd |-> maybe(spTypeInt),
            generationLeft |-> const(PyInt(-1))]
    /\ AsMap(decl.reg[1].attrDefs) = [id |-> spTypeInt]

-----------------------------------------------------------------------------
(* Threads that validate through the same type descriptors at the same     *)
(* time, one turn of a loop at a time.                                     *)

Threads == {1, 2}

\* What a thread validates.
Jobs ==
    { ListFrame(List, <<PyInt(1), PyStr("x"), PyInt(2)>>),
      ListFrame(List, <<PyInt(3), PyInt(4)>>),
      ListFrame(ListList, <<PyList(<<PyInt(3), PyStr("x"), PyInt(4)>>), PyInt(5)>>),
      RecordFrame("TrivialClass",
                  <<[k |-> PyStr("number"), v |-> PyInt(3)],
                    [k |-> PyStr("name"), v |-> PyStr("whee")],
                    [k |-> PyStr("flags"), v |-> PyList(<<PyInt(1), PyStr("x"), PyInt(2)>>)]>>),
      RecordFrame("TrivialClass", <<[k |-> PyStr("number"), v |-> PyStr("x")]>>) }

InitThreads ==
    /\ threads \in {[frames |-> fs, trace |-> <<>>] : fs \in [Threads -> Jobs]}
    /\ IdleCatch
    /\ IdleType
    /\ IdleRec
    /\ IdleApi
    /\ IdleDecl
    /\ IdleReq

\* Thread t runs one turn of its loop.
Turn(t) ==
    /\ threads.frames[t].pc = "loop"
    /\ threads.frames[t].n < turns(threads.frames[t])
    /\ threads' = [frames |-> turnOf(threads.frames, t),
                   trace |-> Append(threads.trace, t)]
    /\ UNCHANGED <<catchVars, typeVars, recVars, apiVars, declVars, reqVars>>

\* Thread t leaves its loop and returns or raises.
Return(t) ==
    /\ threads.frames[t].pc = "loop"
    /\ threads.frames[t].n = turns(threads.frames[t])
    /\ threads' = [frames |-> [threads.frames EXCEPT ![t] = leave(@, t)],
                   trace |-> Append(threads.trace, t)]
    /\ UNCHANGED <<catchVars, typeVars, recVars, apiVars, declVars, reqVars>>

NextThreads ==
    \/ \E t \in Threads : Turn(t)
    \/ \E t \in Threads : Return(t)

SpecThreads == InitThreads /\ [][NextThreads]_vars

\* What the invocation of frame f returns or raises when it runs alone.
Alone(f, id) ==
    IF f.kind = "list" THEN buildList(f.T, PyList(f.input))
    ELSE JsonObjectImpl_new(f.cls, PyDict(f.input), <<>>, id)

\* C24: however the threads interleave, each invocation returns or raises
\* what it does when it runs alone: its result and its partial hold nothing
\* that another invocation accumulated.
C24_ThreadsIndependent ==
    threads # Idle =>
        \A t \in Threads :
            threads.frames[t].pc = "done" =>
                threads.frames[t].out = Alone(threads.frames[t], t)

\* Two threads validate [1, "x", 2] and [3, 4] as [int] turn by turn in
\* alternation: the first raises with the partial [1, 2], the second
\* returns [3, 4].
C24_Witness ==
    /\ threads # Idle
    /\ threads.trace = <<1, 2, 1, 2, 1, 2, 1>>
    /\ threads.frames[1].input = <<PyInt(1), PyStr("x"), PyInt(2)>>
    /\ threads.frames[2].input = <<PyInt(3), PyInt(4)>>
    /\ threads.frames[2].out = Ret(PyList(<<PyInt(3), PyInt(4)>>))
    /\ ~threads.frames[1].out.ok
    /\ threads.frames[1].out.err.partial = PyList(<<PyInt(1), PyInt(2)>>)

-----------------------------------------------------------------------------
(* The JSON body of a request: clear_none, then dumps.                     *)

\* The values without a container in them.
Leaves == {PyNone, PyInt(1), PyStr("x")}

\* A TrivialClass instance with the flags given.
Trivial(flags) ==
    Instance("TrivialClass", 1,
             [number |-> PyInt(3), name |-> PyStr("whee"), flags |-> flags])

\* Containers of leaves: lists, sets, maps, and record instances.
Inner ==
    {PyList(<<>>), PyDict(<<>>), PySet({PyNone, PyInt(1), PyInt(2)}),
     PySet({PyInt(2)}), Trivial(PyNone),
     Trivial(PyList(<<PyInt(0), PyInt(1)>>))}
    \cup {PyList(<<x, y>>) : x \in Leaves, y \in Leaves}
    \cup {PyDict(<<[k |-> PyStr("a"), v |-> x], [k |-> PyStr("b"), v |-> y]>>) :
            x \in Leaves, y \in Leaves}

\* The values an API method is given as its json argument.
Bodies ==
    Leaves \cup Inner
    \cup {PyList(<<x, y>>) : x \in Inner, y \in Leaves}
    \cup {PyDict(<<[k |-> PyStr("addDisks"), v |-> x], [k |-> PyStr("rmDisks"), v |-> y]>>) :
            x \in Inner, y \in {PyNone, PyList(<<>>)}}

\* The orders the elements of a set are listed in.
BodyOrders ==
    { <<PyNone, PyInt(1), PyInt(2)>>, <<PyInt(2), PyNone, PyInt(1)>> }

InitBody ==
    /\ raw \in Bodies
    /\ tp = Idle
    /\ res = Idle
    /\ IdleCatch
    /\ IdleRec
    /\ IdleApi
    /\ IdleDecl
    /\ IdleReq
    /\ IdleThreads

\* json = js.dumps(clear_none(json))
Clear(order) ==
    /\ res = Idle
    /\ res' = [op |-> "clear_none", order |-> order,
               cleared |-> clear_none(raw, order), body |-> bodyOf(raw, order)]
    /\ UNCHANGED <<tp, raw, catchVars, recVars, apiVars, declVars, reqVars, threadVars>>

NextBody == \E order \in BodyOrders : Clear(order)

SpecBody == InitBody /\ [][NextBody]_vars

RECURSIVE NoNull(_)
\* The JSON document has no null in it.
NoNull(doc) ==
    CASE doc.j = "null" -> FALSE
      [] doc.j = "array" -> \A n \in 1 .. Len(doc.items) : NoNull(doc.items[n])
      [] doc.j = "object" -> \A n \in 1 .. Len(doc.members) : NoNull(doc.members[n].v)
      [] OTHER -> TRUE

RECURSIVE Plain(_)
\* The value has no None, no set and no record instance in it.
Plain(v) ==
    CASE v.t \in {"none", "set", "obj"} -> FALSE
      [] v.t = "list" -> \A n \in 1 .. Len(v.l) : Plain(v.l[n])
      [] v.t = "dict" -> \A n \in 1 .. Len(v.kv) : Plain(v.kv[n].v)
      [] OTHER -> TRUE

RECURSIVE TopKept(_, _, _)
\* The top of the value cleared: the entries of a map (or of a record) whose
\* value is not None, in their order; the elements of a list or of a set
\* that are not None.
TopKept(v, cleared, order) ==
    CASE v.t = "obj" -> TopKept(to_json(v), cleared, order)
      [] v.t = "dict" ->
            /\ cleared.t = "dict"
            /\ [n \in 1 .. Len(cleared.kv) |-> cleared.kv[n].k]
                 = [n \in 1 .. Len(Pick(v.kv, {e \in Range(v.kv) : e.v # PyNone})) |->
                        Pick(v.kv, {e \in Range(v.kv) : e.v # PyNone})[n].k]
      [] v.t = "list" ->
            /\ cleared.t = "list"
            /\ Len(cleared.l) = Cardinality({n \in 1 .. Len(v.l) : v.l[n] # PyNone})
      [] v.t = "set" ->
            /\ cleared.t = "list"
            /\ Range(cleared.l) = v.e \ {PyNone}
            /\ Len(cleared.l) = Cardinality(v.e \ {PyNone})
      [] OTHER -> cleared = v

\* C26: the body sent has no null at any depth; clear_none turns records
\* into maps and sets into lists, drops the map entries whose value is None
\* and the None elements of lists and sets, and leaves a value that has
\* none of these in it, empty lists and maps included, as it is.
C26_BodyHasNoNull ==
    (res # Idle /\ res.op = "clear_none") =>
        /\ raw # PyNone => NoNull(res.body)
        /\ raw = PyNone => res.body = NoBody
        /\ TopKept(raw, res.cleared, res.order)
        /\ Plain(raw) => res.cleared = raw

\* {addDisks: set([None, 1, 2]), rmDisks: None} is sent as {addDisks: [2, 1]}.
C26_Witness ==
    /\ res # Idle
    /\ res.op = "clear_none"
    /\ raw = PyDict(<<[k |-> PyStr("addDisks"),
                       v |-> PySet({PyNone, PyInt(1), PyInt(2)})],
                      [k |-> PyStr("rmDisks"), v |-> PyNone]>>)
    /\ res.cleared = PyDict(<<[k |-> PyStr("addDisks"),
                               v |-> PyList(<<PyInt(2), PyInt(1)>>)]>>)
    /\ NoNull(res.body)

-----------------------------------------------------------------------------
(* Claims about the requests of Api.__call__.                              *)

\* The "RemoteCommand/<clusterName>/" component of the call.
RemotePart == "RemoteCommand/" \o py_str(req.clusterName) \o "/"

\* The path the claim describes, by the components it has.
ClaimedPath ==
    CASE req.clusterName = PyNone /\ ~(req.multiCluster /\ req.apiMultiCluster) ->
            "/ctrl/1.0/" \o req.query
      [] req.clusterName = PyNone /\ (req.multiCluster /\ req.apiMultiCluster) ->
            "/ctrl/1.0/MultiCluster/" \o req.query
      [] req.clusterName # PyNone /\ ~(req.multiCluster /\ req.apiMultiCluster) ->
            "/ctrl/1.0/" \o RemotePart \o req.query
      [] OTHER ->
            "/ctrl/1.0/" \o RemotePart \o "MultiCluster/" \o req.query

\* C25: the path requested is /ctrl/1.0/, then RemoteCommand/<clusterName>/
\* exactly when a clusterName was given, then MultiCluster/ exactly when
\* the method is multiCluster and the Api was made with multiCluster=True,
\* then the query.
C25_PathComponents ==
    req # Idle =>
        \A n \in 1 .. Len(req.sent) : req.sent[n].path.path = ClaimedPath

\* volumeCreate in the cluster "backup" through an Api with multiCluster:
\* /ctrl/1.0/RemoteCommand/backup/MultiCluster/VolumeCreate
C25_Witness ==
    /\ req # Idle
    /\ req.sent # <<>>
    /\ req.clusterName = PyStr("backup")
    /\ req.multiCluster
    /\ req.apiMultiCluster
    /\ req.sent[1].path.path = "/ctrl/1.0/RemoteCommand/backup/MultiCluster/VolumeCreate"

\* C27: every attempt issues the request of the first attempt: the same
\* method, the same path, the "?json=" of a GET with JSON included, and the
\* same body.
C27_RetriesRepeatRequest ==
    req # Idle =>
        \A n \in 1 .. Len(req.sent) : req.sent[n] = req.sent[1]

-----------------------------------------------------------------------------
(* The objects a validation writes to.  A constructor and a container      *)
(* validator are handed the caller's raw map or collection by reference;   *)
(* store maps the name of an object to its contents: "arg" is the object   *)
(* of the caller, "new" the container the call creates.                    *)

\* The objects at the start of a call on the caller's value v.
Objects(v) == [o \in {"arg"} |-> v]

\* lst = [], st = set(), d = dict(), {}: a new object with the contents v.
allocated(store, v) == ("new" :> v) @@ store

\* A faulty copy: j = json, the name j bound to the caller's map itself.
copied_alias(store, json) ==
    IF json.t = "dict" THEN [store |-> store, ref |-> "arg"]
    ELSE [store |-> allocated(store, PyDict(py_dict(json).val)), ref |-> "new"]

\* j = dict(json), for a json that dict() accepts: a new map with the
\* entries of json.
copied(store, json) ==
    [store |-> allocated(store, PyDict(py_dict(json).val)), ref |-> "new"]

\* lst.append(tx), for each of txs in turn, on the object ref names.
appendAll(store, ref, txs) == [store EXCEPT ![ref] = PyList(@.l \o txs)]

\* st.add(tx), for each of txs in turn.
addAll(store, ref, txs) == [store EXCEPT ![ref] = PySet(@.e \cup Range(txs))]

\* d[key] = value for each entry of kv in turn; j.update(kwargs).
putAll(store, ref, kv) == [store EXCEPT ![ref] = PyDict(dictUpdate(@.kv, kv))]

\* The end of a builder: sp_caught(exc, name, lst), then return lst.
builtIn(name, store, e) ==
    [store |-> store, out |-> Then(sp_caught(e, name, store.new), store.new)]

\* The list a reduce made: st is what reduceCatch returns, its values
\* appended to the new list one by one.
listMade(name, store, st) == builtIn(name, appendAll(store, "new", st.acc), st.exc)

\* buildList from "lst = []" on, it the outcome of iterating xs.
listFrom(T, store, it) ==
    IF ~it.ok THEN [store |-> store, out |-> it]
    ELSE listMade(T.name, allocated(store, PyList(<<>>)),
                  reduceCatch(T.sub, it.val, [acc |-> <<>>, exc |-> NoExc]))

\* buildList(xs), xs the caller's object.
buildListIn(T, store) == listFrom(T, store, py_iter(store.arg))

\* The set a reduce made.
setMade(name, store, st) == builtIn(name, addAll(store, "new", st.acc), st.exc)

\* buildSet from "st = set()" on.
setFrom(T, store, it) ==
    IF ~it.ok THEN [store |-> store, out |-> it]
    ELSE setMade(T.name, allocated(store, PySet({})),
                 reduceCatch(T.sub, it.val, [acc |-> <<>>, exc |-> NoExc]))

\* buildSet(xs)
buildSetIn(T, store) == setFrom(T, store, py_iter(store.arg))

\* The end of buildDict, st what its loop made.
dictBuiltIn(T, store, st) ==
    IF st.err # NoExc
    THEN [store |-> putAll(store, "new", st.d), out |-> Raise(st.err)]
    ELSE builtIn(T.name, putAll(store, "new", st.d), st.exc)

\* buildDict(xs): six.iteritems(xs) raises for a value that is no map.
buildDictIn(T, store) ==
    IF store.arg.t # "dict"
    THEN [store |-> store,
          out |-> Raise(Exception("AttributeError",
                    "'" \o TypeName(store.arg) \o "' object has no attribute 'items'"))]
    ELSE dictBuiltIn(T, allocated(store, PyDict(<<>>)),
            dictLoop(T, store.arg.kv, [d |-> <<>>, exc |-> NoExc, err |-> NoExc]))

\* The loop and the end of __new__, j the object c.ref names after
\* j.update(kwargs): c is what the copy made.
newOver(cls, id, c, kwargs) ==
    [store |-> putAll(c.store, c.ref, kwargs),
     out |-> newReturn(cls, id,
                newLoop(jsonAttrDefs(cls), dictUpdate(c.store[c.ref].kv, kwargs),
                        [a |-> <<>>, exc |-> NoExc]))]

\* j = dict(json) if json is not None else {}
newCopy(store) ==
    IF store.arg = PyNone
    THEN [store |-> allocated(store, PyDict(<<>>)), ref |-> "new"]
    ELSE copied(store, store.arg)

\* __new__ for a json that is no instance, d the outcome of dict(json).
newWith(cls, store, kwargs, id, d) ==
    IF ~d.ok THEN [store |-> store, out |-> d]
    ELSE newOver(cls, id, newCopy(store), kwargs)

\* JsonObjectImpl.__new__(cls, json, **kwargs), json the caller's object.
newIn(cls, store, kwargs, id) ==
    IF IsInstance(store.arg, cls)
    THEN [store |-> store,
          out |-> IF kwargs # <<>>
                  THEN Raise(Exception("AssertionError",
                            "Unsupported update on already contructed object"))
                  ELSE Ret(store.arg)]
    ELSE newWith(cls, store, kwargs, id,
                 py_dict(IF store.arg = PyNone THEN PyDict(<<>>) ELSE store.arg))

\* The container types and the record types a caller hands an object to.
Containers == {T \in TypeDescs : T.k \in {"list", "set", "dict"}}
RecordOf(cls) == [k |-> "record", name |-> cls]

InitInput ==
    /\ \/ tp \in Containers /\ raw \in RawValues
       \/ \E cls \in Classes : tp = RecordOf(cls) /\ raw \in RawJson(cls)
    /\ res = Idle
    /\ IdleCatch
    /\ IdleRec
    /\ IdleApi
    /\ IdleDecl
    /\ IdleReq
    /\ IdleThreads

\* tp.handleVal(raw), tp a container type.
ValidateIn ==
    /\ res = Idle
    /\ tp.k # "record"
    /\ res' = [op |-> "handleVal", kwargs |-> <<>>,
               r |-> CASE tp.k = "list" -> buildListIn(tp, Objects(raw))
                       [] tp.k = "set" -> buildSetIn(tp, Objects(raw))
                       [] tp.k = "dict" -> buildDictIn(tp, Objects(raw))]
    /\ UNCHANGED <<tp, raw, catchVars, recVars, apiVars, declVars, reqVars, threadVars>>

\* cls(raw, **kwargs)
ConstructIn(kwargs) ==
    /\ res = Idle
    /\ tp.k = "record"
    /\ res' = [op |-> "new", kwargs |-> kwargs,
               r |-> newIn(tp.name, Objects(raw), kwargs, 1)]
    /\ UNCHANGED <<tp, raw, catchVars, recVars, apiVars, declVars, reqVars, threadVars>>

NextInput ==
    \/ ValidateIn
    \/ \E cls \in Classes : \E kwargs \in KwArgs(cls) :
          tp = RecordOf(cls) /\ ConstructIn(kwargs)

SpecInput == InitInput /\ [][NextInput]_vars

\* What the call made returns when it is handed the value raw.
OutcomeOnValue ==
    IF tp.k = "record" THEN JsonObjectImpl_new(tp.name, raw, res.kwargs, 1)
    ELSE handleVal(tp, raw)

\* C30: validation leaves its input unchanged: after a record was
\* constructed from a raw map, with or without keyword overrides, and after
\* a list, set or map was validated, whether that succeeded or failed, the
\* caller's object has the contents it had before the call, and a container
\* made is a new object.
C30_InputUnchanged ==
    res # Idle =>
        /\ res.r.store.arg = raw
        /\ res.r.out = OutcomeOnValue
        /\ (res.r.out.ok /\ tp.k # "record") => res.r.out.val = res.r.store.new

\* A record was constructed from a raw map with an override of a key the map
\* has, and construction failed.
C30_Witness ==
    /\ res # Idle
    /\ tp.k = "record"
    /\ raw.t = "dict"
    /\ res.kwargs # <<>>
    /\ DictHas(raw.kv, res.kwargs[1].k)
    /\ DictGet(raw.kv, res.kwargs[1].k) # res.kwargs[1].v
    /\ ~res.r.out.ok
    /\ res.r.out.err.kind = IAE

====
